---------------------------- MODULE Spec2Model ----------------------------
(***************************************************************************)
(* Lead lifecycle engine of the job-lead outreach system:                  *)
(*   run_sender_agent          (sender_agent.py)      initial outreach      *)
(*   process_daily_automation  (automation_manager.py) follow-up cadence    *)
(*   clean_and_enrich_db       (maintenance_tool.py)  repair pass           *)
(* The shared spreadsheet is the state.  Every run of one of the three     *)
(* programs is one action; the mail transport, the AI drafting call and    *)
(* the run-time configuration are the inputs of a run.                     *)
(*                                                                         *)
(* Cells are strings, as in the sheet.  A timestamp cell holds the day     *)
(* ordinal of its date part in decimal ("12" is day 12): get_days_diff     *)
(* only ever uses the date part of "Last Sent At".                         *)
(*                                                                         *)
(* Two programs that do not touch the sheet have specifications of their   *)
(* own: the admission decision of salary_parser.py (SalarySpec) and the    *)
(* launcher menu of main.py (MenuSpec).                                    *)
(***************************************************************************)
EXTENDS Integers, Sequences, FiniteSets, TLC

VARIABLES
    headers,   \* header row of the active sheet (row 1)
    sheet,     \* data rows of the active sheet (rows 2..), each a function column -> cell
    lost,      \* data rows of the Lost_Leads worksheet
    now,       \* today's day ordinal
    fetched,   \* the data rows the run that has just ended read at its start
    op,        \* the run that has just ended: its program, its configuration,
               \* the row at which its loop broke and its AI drafting calls
    calls,     \* mail-transport calls that run made, in order
    writes,    \* store writes that run issued, in order
    repaired,  \* the last run that ended was clean_and_enrich_db
    screening, \* a call of is_salary_too_low: its arguments and, once it has
               \* returned, its result
    launcher   \* the launcher menu of main.py

vars == <<headers, sheet, lost, now, fetched, op, calls, writes, repaired, screening,
          launcher>>

---------------------------------------------------------------------------
(* Bounds of the model *)

MaxRows == 2        \* data rows in the initial sheet
MaxDays == 1        \* days that pass during a behaviour
MaxAttempts == 2    \* cap of a record's Send Attempts
MaxBatchRows == 11  \* rows of a sheet long enough for an intermediate batch save
StartDay == 20      \* day ordinal of the first day of a behaviour
MaxLifeDays == 27   \* days that pass during a life of a lead (the whole cadence:
                    \* waits of 2, 5, 7 and 9 days, then 3 days of cooldown)
MaxInputs == 4      \* lines typed at the prompts of the launcher in a session
MaxLost == 2        \* rows of Lost_Leads before a run over a store that refuses writes

---------------------------------------------------------------------------
(* Python string primitives, computed character by character *)

CharAt(s, i) == SubSeq(s, i, i)

DigitChars == {"0", "1", "2", "3", "4", "5", "6", "7", "8", "9"}
UpperAlphabet == "ABCDEFGHIJKLMNOPQRSTUVWXYZ"
LowerAlphabet == "abcdefghijklmnopqrstuvwxyz"
UpperChars == {CharAt(UpperAlphabet, i) : i \in 1..26}
LowerChars == {CharAt(LowerAlphabet, i) : i \in 1..26}
LetterChars == UpperChars \cup LowerChars

\* str.isdigit(): non-empty and all characters are digits
isdigit_chars(s) == Len(s) > 0 /\ \A i \in 1..Len(s) : CharAt(s, i) \in DigitChars

DigitVals == [c \in DigitChars |-> CHOOSE d \in 0..9 : CharAt("0123456789", d + 1) = c]
DigitVal(c) == DigitVals[c]

\* int(s) for a digit string
RECURSIVE int_chars(_)
int_chars(s) ==
    IF Len(s) = 0 THEN 0
    ELSE 10 * int_chars(SubSeq(s, 1, Len(s) - 1)) + DigitVal(CharAt(s, Len(s)))

\* str(n) for an integer
RECURSIVE str_chars(_)
str_chars(n) ==
    IF n < 0 THEN "-" \o str_chars(0 - n)
    ELSE IF n < 10 THEN CharAt("0123456789", n + 1)
    ELSE str_chars(n \div 10) \o CharAt("0123456789", (n % 10) + 1)

\* sub in s
contains(s, sub) ==
    \E i \in 1..(Len(s) - Len(sub) + 1) : SubSeq(s, i, i + Len(sub) - 1) = sub

RECURSIVE lstrip(_)
lstrip(s) == IF Len(s) > 0 /\ CharAt(s, 1) = " " THEN lstrip(Tail(s)) ELSE s

RECURSIVE rstrip(_)
rstrip(s) ==
    IF Len(s) > 0 /\ CharAt(s, Len(s)) = " "
    THEN rstrip(SubSeq(s, 1, Len(s) - 1)) ELSE s

strip_chars(s) == rstrip(lstrip(s))

ToLower ==
    [c \in UpperChars |->
        CharAt(LowerAlphabet, CHOOSE i \in 1..26 : CharAt(UpperAlphabet, i) = c)]
ToUpper ==
    [c \in LowerChars |->
        CharAt(UpperAlphabet, CHOOSE i \in 1..26 : CharAt(LowerAlphabet, i) = c)]

lowerChar(c) == IF c \in UpperChars THEN ToLower[c] ELSE c

upperChar(c) == IF c \in LowerChars THEN ToUpper[c] ELSE c

RECURSIVE lower_chars(_)
lower_chars(s) ==
    IF Len(s) = 0 THEN "" ELSE lowerChar(CharAt(s, 1)) \o lower_chars(Tail(s))

RECURSIVE upper_chars(_)
upper_chars(s) ==
    IF Len(s) = 0 THEN "" ELSE upperChar(CharAt(s, 1)) \o upper_chars(Tail(s))

\* The last position of the run of characters of S that starts at i (i-1: no run)
RECURSIVE RunEnd(_, _, _)
RunEnd(s, i, S) ==
    IF i <= Len(s) /\ CharAt(s, i) \in S THEN RunEnd(s, i + 1, S) ELSE i - 1

EmailLocalChars == LetterChars \cup DigitChars \cup {".", "_", "%", "+", "-"}
EmailDomainChars == LetterChars \cup DigitChars \cup {".", "-"}

\* Where the regex [A-Z0-9._%+-]+@[A-Z0-9.-]+\.[A-Z]{2,} (re.I) matches from
\* position i: the position of the dot that starts the top-level domain, the
\* rightmost one the greedy domain part can give back; 0 when there is no match.
EmailDotAt(s, i) ==
    LET at == RunEnd(s, i, EmailLocalChars) + 1
        q  == RunEnd(s, at + 1, EmailDomainChars)
        dots == {r \in (at + 2)..(q - 2) :
                    /\ CharAt(s, r) = "."
                    /\ CharAt(s, r + 1) \in LetterChars
                    /\ CharAt(s, r + 2) \in LetterChars}
    IN  IF at > i /\ at <= Len(s) /\ CharAt(s, at) = "@" /\ dots # {}
        THEN CHOOSE r \in dots : \A r2 \in dots : r2 <= r
        ELSE 0

\* extract_email: the first match of the regex in the text, "" when none
extract_email_chars(text) ==
    LET starts == {i \in 1..Len(text) : EmailDotAt(text, i) > 0}
    IN  IF text = "" \/ starts = {} THEN ""
        ELSE LET i == CHOOSE j \in starts : \A k \in starts : j <= k
                 r == EmailDotAt(text, i)
             IN  SubSeq(text, i, RunEnd(text, r + 1, LetterChars))

---------------------------------------------------------------------------
(* The texts the cells of the model's sheets hold.  The string functions are *)
(* evaluated on them once and looked up afterwards; on any other text they   *)
(* are computed character by character.                                      *)

EMAIL == "Mail: al@t.co"
PHONE == "+63 917"
DRAFT == "Hi body"
AI_DRAFT == "Hi there, I saw your post"
DESCRIPTION == "Looking for a virtual assistant"

Modes == {"DRYRUN", "MOCK", "REAL"}
SendStatuses == {"", "PENDING", "SENT", "FAILED", "SKIPPED", "MANUAL_CHECK", "SENT_AUTO"}

Numbers == 0..(StartDay + MaxDays + MaxAttempts)

Texts ==
    {"", "New", "Follow-up", "In Progress", "None", "none", "VA", "Hi there",
     "123456", EMAIL, PHONE, DRAFT, AI_DRAFT, DESCRIPTION}
    \cup Modes \cup SendStatuses \cup {str_chars(n) : n \in Numbers}

StripTable == [s \in Texts |-> strip_chars(s)]
LowerTable == [s \in Texts |-> lower_chars(s)]
UpperTable == [s \in Texts |-> upper_chars(s)]
DigitTable == [s \in Texts |-> isdigit_chars(s)]
IntTable == [s \in {t \in Texts : isdigit_chars(t)} |-> int_chars(s)]
StrTable == [n \in Numbers |-> str_chars(n)]
EmailTable == [s \in Texts |-> extract_email_chars(s)]

strip(s) == IF s \in Texts THEN StripTable[s] ELSE strip_chars(s)
lower(s) == IF s \in Texts THEN LowerTable[s] ELSE lower_chars(s)
upper(s) == IF s \in Texts THEN UpperTable[s] ELSE upper_chars(s)
isdigit(s) == IF s \in Texts THEN DigitTable[s] ELSE isdigit_chars(s)
int(s) == IF s \in DOMAIN IntTable THEN IntTable[s] ELSE int_chars(s)
str(n) == IF n \in Numbers THEN StrTable[n] ELSE str_chars(n)
extract_email(text) == IF text \in Texts THEN EmailTable[text] ELSE extract_email_chars(text)

---------------------------------------------------------------------------
(* utils.py *)

\* get_timestamp_iso: the current time; its date part is today
get_timestamp_iso == str(now)

NO_DATE_DAYS == 999

\* A get_days_diff that takes a cell without a date for today's date
get_days_diff_Today(date_str, today) ==
    IF date_str = "" THEN 0
    ELSE IF isdigit(date_str) THEN today - int(date_str)
    ELSE 0

\* get_days_diff: days since the date of the cell; 999 when empty or unparseable
get_days_diff(date_str, today) ==
    IF date_str = "" THEN NO_DATE_DAYS
    ELSE IF isdigit(date_str) THEN today - int(date_str)
    ELSE NO_DATE_DAYS

\* ensure_columns: the headers with the missing required ones appended
RECURSIVE ensure_columns(_, _)
ensure_columns(hs, required) ==
    IF required = <<>> THEN hs
    ELSE IF \E i \in 1..Len(hs) : hs[i] = Head(required)
    THEN ensure_columns(hs, Tail(required))
    ELSE ensure_columns(Append(hs, Head(required)), Tail(required))

---------------------------------------------------------------------------
(* salary_parser.py: the compensation normaliser and the admission decision *)
(*                                                                         *)
(* A number is the exact rational n/d, the record [n |-> n, d |-> d] with  *)
(* d > 0; None is the absent value of an Optional.  The compensation       *)
(* strings are ASCII, with the blank as the only white space.              *)

None == [none |-> TRUE]

Num(n, d) == [n |-> n, d |-> d]
Less(a, b) == a.n * b.d < b.n * a.d
LessEq(a, b) == a.n * b.d <= b.n * a.d
Whole(k) == Num(k, 1)

HOURS_PER_MONTH == Num(1732, 10)
WEEKS_PER_MONTH == Num(433, 100)

\* Elements of a regular expression: a literal, \b, \s*, \s+, (?<![A-Za-z])
\* and (?![A-Za-z])
Lit(v) == [t |-> "lit", v |-> v]
WordBoundary == [t |-> "b", v |-> ""]
Spaces == [t |-> "s*", v |-> ""]
SomeSpaces == [t |-> "s+", v |-> ""]
NoLetterBefore == [t |-> "nlb", v |-> ""]
NoLetterAfter == [t |-> "nla", v |-> ""]

WordChars == LetterChars \cup DigitChars \cup {"_"}

IsCharOf(s, i, S) == i >= 1 /\ i <= Len(s) /\ CharAt(s, i) \in S

\* The elements k.. of the pattern match the text from position i on
RECURSIVE MatchFrom(_, _, _, _)
MatchFrom(s, i, pat, k) ==
    IF k > Len(pat) THEN TRUE
    ELSE LET e == pat[k]
         IN  CASE e.t = "lit" ->
                      /\ i + Len(e.v) - 1 <= Len(s)
                      /\ SubSeq(s, i, i + Len(e.v) - 1) = e.v
                      /\ MatchFrom(s, i + Len(e.v), pat, k + 1)
               [] e.t = "b" ->
                      /\ IsCharOf(s, i - 1, WordChars) # IsCharOf(s, i, WordChars)
                      /\ MatchFrom(s, i, pat, k + 1)
               [] e.t = "s*" -> MatchFrom(s, RunEnd(s, i, {" "}) + 1, pat, k + 1)
               [] e.t = "s+" ->
                      /\ IsCharOf(s, i, {" "})
                      /\ MatchFrom(s, RunEnd(s, i, {" "}) + 1, pat, k + 1)
               [] e.t = "nlb" ->
                      /\ ~IsCharOf(s, i - 1, LetterChars)
                      /\ MatchFrom(s, i, pat, k + 1)
               [] e.t = "nla" ->
                      /\ ~IsCharOf(s, i, LetterChars)
                      /\ MatchFrom(s, i, pat, k + 1)

\* pattern.search(text) of a pattern compiled with re.IGNORECASE: one of the
\* alternatives matches somewhere
search(alternatives, text) ==
    LET s == lower_chars(text)
    IN  \E p \in alternatives : \E i \in 1..(Len(s) + 1) : MatchFrom(s, i, p, 1)

Word(w) == <<WordBoundary, Lit(w), WordBoundary>>

\* The alternative of the peso sign is left out: the strings are ASCII.
CURRENCY_PATTERNS ==
    [php |-> {Word("php"), Word("peso"), Word("pesos"),
              <<WordBoundary, Lit("philippine"), SomeSpaces, Lit("peso"), WordBoundary>>},
     usd |-> {<<Lit("$"), Spaces>>,
              <<NoLetterBefore, Lit("usd"), NoLetterAfter>>,
              <<WordBoundary, Lit("u.s.d"), WordBoundary>>,
              <<WordBoundary, Lit("us$"), WordBoundary>>,
              Word("dollar"), Word("dollars")}]

detect_currency(text) ==
    IF text = "" THEN "unknown"
    ELSE IF search(CURRENCY_PATTERNS.php, text) THEN "php"
    ELSE IF search(CURRENCY_PATTERNS.usd, text) THEN "usd"
    ELSE "unknown"

Per(w) == <<Lit("per"), Spaces, Lit(w)>>
Slash(w) == <<Lit("/"), Spaces, Lit(w)>>
SlashWord(w) == <<Lit("/"), Spaces, Lit(w), WordBoundary>>

UNIT_PATTERNS ==
    [hour  |-> {Per("hour"), Slash("hour"), Word("hourly"), SlashWord("hr"), Word("hr")},
     week  |-> {Per("week"), Slash("week"), Word("weekly"), SlashWord("wk"), Word("wk"),
                Word("week")},
     month |-> {Per("month"), Slash("month"), Word("monthly"), SlashWord("mo"), Word("mo"),
                Word("month")},
     year  |-> {Per("year"), Slash("year"), Word("yearly"), Word("annual"),
                Word("annually"), Word("year")}]

OVER_PATTERN ==
    {Word("over"), <<WordBoundary, Lit("at"), Spaces, Lit("least"), WordBoundary>>,
     Word("from"), Word("minimum"), Word("min")}

UPTO_PATTERN ==
    {<<WordBoundary, Lit("up"), Spaces, Lit("to"), WordBoundary>>, Word("upto"),
     Word("maximum"), Word("max"),
     <<WordBoundary, Lit("no"), SomeSpaces, Lit("more"), SomeSpaces, Lit("than"),
       WordBoundary>>}

detect_unit(text) ==
    IF text = "" THEN "unknown"
    ELSE IF search(UNIT_PATTERNS.hour, text) THEN "hour"
    ELSE IF search(UNIT_PATTERNS.week, text) THEN "week"
    ELSE IF search(UNIT_PATTERNS.month, text) THEN "month"
    ELSE IF search(UNIT_PATTERNS.year, text) THEN "year"
    ELSE "unknown"

NumberChars == DigitChars \cup {",", "."}

RECURSIVE DropOthers(_)
DropOthers(s) ==
    IF Len(s) > 0 /\ CharAt(s, 1) \notin NumberChars THEN DropOthers(Tail(s)) ELSE s

\* _NON_DIGIT_COMMA_DOT.sub(" ", text): every run of other characters becomes
\* one blank (_MULTI_SPACES then finds no longer run of blanks)
RECURSIVE BlankOthers(_)
BlankOthers(s) ==
    IF Len(s) = 0 THEN ""
    ELSE IF CharAt(s, 1) \in NumberChars THEN CharAt(s, 1) \o BlankOthers(Tail(s))
    ELSE " " \o BlankOthers(DropOthers(s))

normalize_for_numbers(text) ==
    IF text = "" THEN "" ELSE strip_chars(BlankOthers(text))

\* cleaned.split(" ") of a string whose blanks are single
RECURSIVE split(_)
split(s) ==
    LET e == RunEnd(s, 1, NumberChars)
    IN  IF e >= Len(s) THEN <<s>>
        ELSE <<SubSeq(s, 1, e)>> \o split(SubSeq(s, e + 2, Len(s)))

RECURSIVE remove(_, _)
remove(s, c) ==
    IF Len(s) = 0 THEN ""
    ELSE IF CharAt(s, 1) = c THEN remove(Tail(s), c)
    ELSE CharAt(s, 1) \o remove(Tail(s), c)

count_of(s, c) == Cardinality({i \in 1..Len(s) : CharAt(s, i) = c})

_is_valid_number_token(token) ==
    /\ token # ""
    /\ \E i \in 1..Len(token) : CharAt(token, i) \in DigitChars
    /\ count_of(token, ".") <= 1
    /\ isdigit_chars(remove(remove(token, ","), "."))

RECURSIVE Power10(_)
Power10(k) == IF k = 0 THEN 1 ELSE 10 * Power10(k - 1)

\* float(part) of a valid token without commas: digits with at most one dot
float(part) ==
    LET dots == {i \in 1..Len(part) : CharAt(part, i) = "."}
        decimals == IF dots = {} THEN 0 ELSE Len(part) - (CHOOSE i \in dots : TRUE)
    IN  Num(int_chars(remove(part, ".")), Power10(decimals))

RECURSIVE ParseParts(_, _, _)
ParseParts(parts, nums, max_numbers) ==
    IF parts = <<>> THEN nums
    ELSE IF ~_is_valid_number_token(Head(parts))
         THEN ParseParts(Tail(parts), nums, max_numbers)
    ELSE LET more == Append(nums, float(remove(Head(parts), ",")))
         IN  IF Len(more) >= max_numbers THEN more
             ELSE ParseParts(Tail(parts), more, max_numbers)

extract_numbers(text, max_numbers) ==
    LET cleaned == normalize_for_numbers(text)
    IN  IF cleaned = "" THEN <<>> ELSE ParseParts(split(cleaned), <<>>, max_numbers)

Times(a, b) == Num(a.n * b.n, a.d * b.d)

_convert_to_monthly(value, unit) ==
    IF value = None THEN None
    ELSE IF unit = "hour" THEN Times(value, HOURS_PER_MONTH)
    ELSE IF unit = "week" THEN Times(value, WEEKS_PER_MONTH)
    ELSE IF unit = "year" THEN Times(value, Num(1, 12))
    ELSE IF unit = "month" THEN value
    ELSE None

_representative_value(low_raw, high_raw) ==
    IF low_raw # None THEN low_raw ELSE high_raw

IfUnknown(unit, inferred) == IF unit = "unknown" THEN inferred ELSE unit

\* An inference whose weekly range takes 400 in
_infer_unknown_currency_and_unit_WeekTo400(currency, unit, low_raw, high_raw) ==
    LET v == _representative_value(low_raw, high_raw)
    IN  IF currency # "unknown" THEN <<currency, unit>>
        ELSE IF v = None THEN <<currency, unit>>
        ELSE IF LessEq(Whole(15000), v) /\ LessEq(v, Whole(100000))
             THEN <<"php", IfUnknown(unit, "month")>>
        ELSE IF Less(v, Whole(100)) THEN <<"usd", IfUnknown(unit, "hour")>>
        ELSE IF LessEq(Whole(100), v) /\ LessEq(v, Whole(400))
             THEN <<"usd", IfUnknown(unit, "week")>>
        ELSE IF LessEq(Whole(400), v) /\ LessEq(v, Whole(4000))
             THEN <<"usd", IfUnknown(unit, "month")>>
        ELSE <<currency, unit>>

_infer_unknown_currency_and_unit(currency, unit, low_raw, high_raw) ==
    LET v == _representative_value(low_raw, high_raw)
    IN  IF currency # "unknown" THEN <<currency, unit>>
        ELSE IF v = None THEN <<currency, unit>>
        ELSE IF LessEq(Whole(15000), v) /\ LessEq(v, Whole(100000))
             THEN <<"php", IfUnknown(unit, "month")>>
        ELSE IF Less(v, Whole(100)) THEN <<"usd", IfUnknown(unit, "hour")>>
        ELSE IF LessEq(Whole(100), v) /\ Less(v, Whole(400))
             THEN <<"usd", IfUnknown(unit, "week")>>
        ELSE IF LessEq(Whole(400), v) /\ LessEq(v, Whole(4000))
             THEN <<"usd", IfUnknown(unit, "month")>>
        ELSE <<currency, unit>>

min(a, b) == IF Less(b, a) THEN b ELSE a
max(a, b) == IF Less(a, b) THEN b ELSE a

\* The raw bounds of build_salary_facts: low_raw and high_raw from the numbers
RawBounds(nums, has_over, has_upto) ==
    IF Len(nums) = 0 THEN <<None, None>>
    ELSE IF Len(nums) = 1
         THEN IF has_over THEN <<nums[1], None>>
              ELSE IF has_upto THEN <<None, nums[1]>>
              ELSE <<nums[1], nums[1]>>
    ELSE <<min(nums[1], nums[2]), max(nums[1], nums[2])>>

\* The SalaryFacts record of build_salary_facts
SalaryFacts(raw, bounds, inferred, has_over, has_upto) ==
    [currency |-> inferred[1],
     unit |-> inferred[2],
     low_raw |-> bounds[1],
     high_raw |-> bounds[2],
     low_monthly |-> _convert_to_monthly(bounds[1], inferred[2]),
     high_monthly |-> _convert_to_monthly(bounds[2], inferred[2]),
     has_over |-> has_over,
     has_upto |-> has_upto,
     raw |-> raw]

InferredFacts(raw, bounds, has_over, has_upto) ==
    SalaryFacts(raw, bounds,
                _infer_unknown_currency_and_unit(
                    detect_currency(raw), detect_unit(raw), bounds[1], bounds[2]),
                has_over, has_upto)

BoundedFacts(raw, has_over, has_upto) ==
    InferredFacts(raw, RawBounds(extract_numbers(raw, 2), has_over, has_upto),
                  has_over, has_upto)

build_salary_facts_chars(raw) ==
    BoundedFacts(raw, search(OVER_PATTERN, raw), search(UPTO_PATTERN, raw))

Compensations ==
    {"", "negotiable", "DOE", "TBD", "negotiable $1000/mo", "TBD usd",
     "$1000/month", "$400/mo", "$5/hour", "$6/hour", "$250/week", "$15,000/year",
     "$900-$1,000/month", "$800-$1,000/month", "over $600/mo",
     "Up to 3,000USD/month", "Up to $500/mo", "Php 15,000", "PHP 50,000/mo",
     "25,000 - 30,000", "75", "500000", "500000 per month", "150-400",
     "$4.99 per hr", "US$250 per week.", "1500 dollar per mo", "up to 20000",
     "DOE, from 12 u.s.d hourly", "$5/h", "5usd / h", "1000/m", "1000 per m"}

FactsTable == [raw \in Compensations |-> build_salary_facts_chars(raw)]

build_salary_facts(raw) ==
    IF raw \in Compensations THEN FactsTable[raw] ELSE build_salary_facts_chars(raw)

\* is_salary_too_low with a rule that admits open-ended compensation texts
OpenTerms == {"negotiable", "doe", "tbd"}

is_salary_too_low_AdmitsNegotiable(raw, min_monthly_usd, min_monthly_php, unknown_policy) ==
    LET facts == build_salary_facts(raw)
        min_required ==
            Whole(IF facts.currency = "usd" THEN min_monthly_usd ELSE min_monthly_php)
    IN  IF \E term \in OpenTerms : contains(lower_chars(raw), term) THEN FALSE
        ELSE IF facts.currency \notin {"usd", "php"} THEN TRUE
        ELSE IF facts.low_monthly = None /\ facts.high_monthly = None
             THEN unknown_policy = "skip"
        ELSE IF facts.low_monthly # None /\ Less(facts.low_monthly, min_required)
             THEN TRUE
        ELSE IF /\ facts.low_monthly = None
                /\ facts.high_monthly # None
                /\ Less(facts.high_monthly, min_required)
             THEN TRUE
        ELSE FALSE

\* is_salary_too_low with <= in place of <
is_salary_too_low_Buffer(raw, min_monthly_usd, min_monthly_php, unknown_policy) ==
    LET facts == build_salary_facts(raw)
        min_required ==
            Whole(IF facts.currency = "usd" THEN min_monthly_usd ELSE min_monthly_php)
    IN  IF facts.currency \notin {"usd", "php"} THEN TRUE
        ELSE IF facts.low_monthly = None /\ facts.high_monthly = None
             THEN unknown_policy = "skip"
        ELSE IF facts.low_monthly # None /\ LessEq(facts.low_monthly, min_required)
             THEN TRUE
        ELSE IF /\ facts.low_monthly = None
                /\ facts.high_monthly # None
                /\ LessEq(facts.high_monthly, min_required)
             THEN TRUE
        ELSE FALSE

\* is_salary_too_low with the policy consulted before the currency
is_salary_too_low_PolicyFirst(raw, min_monthly_usd, min_monthly_php, unknown_policy) ==
    LET facts == build_salary_facts(raw)
        min_required ==
            Whole(IF facts.currency = "usd" THEN min_monthly_usd ELSE min_monthly_php)
    IN  IF facts.low_monthly = None /\ facts.high_monthly = None
        THEN unknown_policy = "skip"
        ELSE IF facts.currency \notin {"usd", "php"} THEN TRUE
        ELSE IF facts.low_monthly # None /\ Less(facts.low_monthly, min_required)
             THEN TRUE
        ELSE IF /\ facts.low_monthly = None
                /\ facts.high_monthly # None
                /\ Less(facts.high_monthly, min_required)
             THEN TRUE
        ELSE FALSE

is_salary_too_low(raw, min_monthly_usd, min_monthly_php, unknown_policy) ==
    LET facts == build_salary_facts(raw)
        min_required ==
            Whole(IF facts.currency = "usd" THEN min_monthly_usd ELSE min_monthly_php)
    IN  IF facts.currency \notin {"usd", "php"} THEN TRUE
        ELSE IF facts.low_monthly = None /\ facts.high_monthly = None
             THEN unknown_policy = "skip"
        ELSE IF facts.low_monthly # None /\ Less(facts.low_monthly, min_required)
             THEN TRUE
        ELSE IF /\ facts.low_monthly = None
                /\ facts.high_monthly # None
                /\ Less(facts.high_monthly, min_required)
             THEN TRUE
        ELSE FALSE

\* The thresholds and policies a screening is called with
MinMonthlyUsd == {0, 866, 900}
MinMonthlyPhp == {15000, 50000}
UnknownPolicies == {"keep", "skip"}

NoScreening ==
    [raw |-> "", min_monthly_usd |-> 0, min_monthly_php |-> 0, unknown_policy |-> "keep",
     decided |-> FALSE, too_low |-> FALSE]

---------------------------------------------------------------------------
(* main.py: the launcher menu.  `launcher` holds the prompt the launcher    *)
(* waits at, os.environ (the two variables the menu sets; "" is unset),     *)
(* the lines typed so far, each with the prompt it answered, and the        *)
(* subprocesses started so far, each with the environment it inherited and  *)
(* the number of lines typed before it started.                             *)

Choices == {"1", "2", " 2", "3", "4", "5", "Q", "q", "x"}
Confirmations == {"YES", "yes", "YES ", "NO", ""}

\* What load_dotenv() and the shell leave in the environment
Environments == [MODE : {"", "REAL", "MOCK"}, VERIFY_ONLY : {"", "1"}]

NoLauncher ==
    [at |-> "quit", environ |-> [MODE |-> "", VERIFY_ONLY |-> ""], typed |-> <<>>,
     started |-> <<>>]

\* input(prompt): the line is typed
input(l, prompt, line) ==
    [l EXCEPT !.typed = Append(l.typed, [prompt |-> prompt, line |-> line])]

\* subprocess.run of a script: the child inherits os.environ
subprocess_run(l, script_name) ==
    [l EXCEPT !.started =
        Append(l.started, [script |-> script_name, MODE |-> l.environ.MODE,
                           VERIFY_ONLY |-> l.environ.VERIFY_ONLY, after |-> Len(l.typed)])]

\* run_script: whether the script ends, crashes or is interrupted, the
\* launcher then waits for Enter
run_script(l, script_name) == [subprocess_run(l, script_name) EXCEPT !.at = "enter"]

setenv(l, MODE, VERIFY_ONLY) ==
    [l EXCEPT !.environ = [MODE |-> MODE, VERIFY_ONLY |-> VERIFY_ONLY]]

\* One turn of the menu loop after "Select option: " is answered
MenuChoice(line) ==
    LET l == input(launcher, "menu", line)
        choice == lower(strip(line))
    IN  /\ launcher.at = "menu"
        /\ Len(launcher.typed) < MaxInputs
        /\ launcher' =
             IF choice = "1" THEN run_script(l, "scraper_agent.py")
             ELSE IF choice = "2"
                  THEN run_script(setenv(l, "DRYRUN", "0"), "sender_agent.py")
             ELSE IF choice = "3" THEN run_script(l, "maintenance_tool.py")
             ELSE IF choice = "4" THEN subprocess_run(l, "dashboard.py")
             ELSE IF choice = "5" THEN [l EXCEPT !.at = "confirm"]
             ELSE IF choice = "q" THEN [l EXCEPT !.at = "quit"]
             ELSE l
        /\ UNCHANGED <<headers, sheet, lost, now, fetched, op, calls, writes, repaired,
                       screening>>

\* Option 5 after "Type 'YES' to confirm: " is answered
ConfirmReal_Lenient(line) ==
    LET l == input(launcher, "confirm", line)
    IN  /\ launcher.at = "confirm"
        /\ Len(launcher.typed) < MaxInputs
        /\ launcher' =
             IF upper(strip(line)) = "YES"
             THEN run_script(setenv(l, "REAL", "0"), "sender_agent.py")
             ELSE [l EXCEPT !.at = "menu"]
        /\ UNCHANGED <<headers, sheet, lost, now, fetched, op, calls, writes, repaired,
                       screening>>

ConfirmReal(line) ==
    LET l == input(launcher, "confirm", line)
    IN  /\ launcher.at = "confirm"
        /\ Len(launcher.typed) < MaxInputs
        /\ launcher' =
             IF line = "YES"
             THEN run_script(setenv(l, "REAL", "0"), "sender_agent.py")
             ELSE [l EXCEPT !.at = "menu"]
        /\ UNCHANGED <<headers, sheet, lost, now, fetched, op, calls, writes, repaired,
                       screening>>

\* "Press Enter to continue..." at the end of run_script is answered
PressEnter ==
    /\ launcher.at = "enter"
    /\ Len(launcher.typed) < MaxInputs
    /\ launcher' = [input(launcher, "enter", "") EXCEPT !.at = "menu"]
    /\ UNCHANGED <<headers, sheet, lost, now, fetched, op, calls, writes, repaired,
                   screening>>

---------------------------------------------------------------------------
(* The sheet *)

\* The columns the three programs read or write (dashboard.py all_cols, without
\* Salary, Post Date and Sales Rep, which none of them touches)
Headers ==
    <<"Job Title", "Contact Info", "Link", "Description", "Status", "Notes",
      "Send Mode", "Send Status", "Send Attempts", "Last Error", "Last Sent At",
      "Followup Count", "Draft Email", "Email Subject">>

HasColumn(hs, col) == \E i \in 1..Len(hs) : hs[i] = col

\* get_cell: the cell of the column, "" when the row has no such column
get_cell(row, col) == IF col \in DOMAIN row THEN row[col] ELSE ""

\* set_cell: the row with the cell of the column replaced (the row is padded
\* up to the column when it is shorter)
set_cell(row, col, value) ==
    IF col \in DOMAIN row THEN [row EXCEPT ![col] = value]
    ELSE [c \in DOMAIN row \cup {col} |-> IF c = col THEN value ELSE row[c]]

\* A lead as the scraper and the drafting step persist it (scraper_agent.py:
\* Status "New", no tracking cells), then moved to a later point of its life
Lead(link, contact, status, sendStatus, followup, lastSent, draft) ==
    [c \in {Headers[i] : i \in 1..Len(Headers)} |->
        CASE c = "Job Title"      -> "VA"
          [] c = "Contact Info"   -> contact
          [] c = "Link"           -> link
          [] c = "Description"    -> DESCRIPTION
          [] c = "Status"         -> status
          [] c = "Send Status"    -> sendStatus
          [] c = "Followup Count" -> followup
          [] c = "Last Sent At"   -> lastSent
          [] c = "Draft Email"    -> draft
          [] OTHER                -> ""]

RowOf(rows, link) == CHOOSE r \in {rows[i] : i \in 1..Len(rows)} : r["Link"] = link
Links(rows) == {rows[i]["Link"] : i \in 1..Len(rows)}

---------------------------------------------------------------------------
(* sender_agent.py *)

MAX_RETRIES == 2

SMTP_ERROR == "SMTP connection refused"

\* str(e) of the exception the k-th transport call of a record raised
ErrorOf(k) == SMTP_ERROR \o " (" \o str(k) \o ")"

\* default_subject_from_row
default_subject_from_row(row) ==
    LET title == strip(get_cell(row, "Job Title"))
    IN  IF title # "" THEN "Quick question about your " \o title \o " role"
        ELSE "Quick question about your hiring needs"

\* A body that is made up when the draft is missing
resolve_body_Invents(row) ==
    IF strip(get_cell(row, "Draft Email")) = "" THEN "Hello"
    ELSE strip(get_cell(row, "Draft Email"))

\* resolve_body: the stripped Draft Email cell
resolve_body(row) == strip(get_cell(row, "Draft Email"))

\* A sender that forgets that SENT is handled
SenderHandled_ResendsSent(send_status, MODE) ==
    /\ send_status \in {"SKIPPED", "MANUAL_CHECK", "PENDING"}
    /\ ~(send_status = "PENDING" /\ MODE = "REAL")

\* The statuses run_sender_agent skips as already handled; PENDING is
\* re-processed by a REAL run
SenderHandled(send_status, MODE) ==
    /\ send_status \in {"SENT", "SKIPPED", "MANUAL_CHECK", "PENDING"}
    /\ ~(send_status = "PENDING" /\ MODE = "REAL")

\* for attempt_idx in range(1, MAX_RETRIES + 1) with its break: the calls made
\* when `failures` calls raise before one succeeds
CallsMade(failures) == IF failures < MAX_RETRIES THEN failures + 1 ELSE MAX_RETRIES

\* A retry loop that records the first error instead of the last
SendWithRetries_FirstError(row, to_email, MODE, failures) ==
    LET attempts_str == strip(get_cell(row, "Send Attempts"))
        attempts == IF isdigit(attempts_str) THEN int(attempts_str) ELSE 0
        ok == failures < MAX_RETRIES
        made == CallsMade(failures)
        counted == set_cell(row, "Send Attempts", str(attempts + made))
        subject == IF strip(get_cell(row, "Email Subject")) # ""
                   THEN strip(get_cell(row, "Email Subject"))
                   ELSE default_subject_from_row(row)
    IN  [calls |-> [k \in 1..made |->
                      [link |-> row["Link"], to |-> to_email, stage |-> 1,
                       subject |-> subject, via |-> MODE, ok |-> (ok /\ k = made),
                       err |-> IF ok /\ k = made THEN "" ELSE ErrorOf(k)]],
         ok  |-> ok,
         row |-> IF ok
                 THEN set_cell(set_cell(set_cell(counted,
                          "Send Status", "SENT"),
                          "Last Error", ""),
                          "Last Sent At", get_timestamp_iso)
                 ELSE set_cell(set_cell(counted,
                          "Send Status", "FAILED"),
                          "Last Error", ErrorOf(1))]

\* The retry loop of one record: `failures` transport calls raise before one
\* succeeds (MAX_RETRIES or more: every call raises).  Each call increments
\* Send Attempts; the loop stops at the first success.
SendWithRetries(row, to_email, MODE, failures) ==
    LET attempts_str == strip(get_cell(row, "Send Attempts"))
        attempts == IF isdigit(attempts_str) THEN int(attempts_str) ELSE 0
        ok == failures < MAX_RETRIES
        made == CallsMade(failures)
        counted == set_cell(row, "Send Attempts", str(attempts + made))
        subject == IF strip(get_cell(row, "Email Subject")) # ""
                   THEN strip(get_cell(row, "Email Subject"))
                   ELSE default_subject_from_row(row)
    IN  [calls |-> [k \in 1..made |->
                      [link |-> row["Link"], to |-> to_email, stage |-> 1,
                       subject |-> subject, via |-> MODE, ok |-> (ok /\ k = made),
                       err |-> IF ok /\ k = made THEN "" ELSE ErrorOf(k)]],
         ok  |-> ok,
         row |-> IF ok
                 THEN set_cell(set_cell(set_cell(counted,
                          "Send Status", "SENT"),
                          "Last Error", ""),
                          "Last Sent At", get_timestamp_iso)
                 ELSE set_cell(set_cell(counted,
                          "Send Status", "FAILED"),
                          "Last Error", ErrorOf(made))]

\* A safety check that lets leads in follow-up through
CrmBlocked_AllowsFollowup(crm_status) == crm_status \notin {"", "new", "follow-up"}

\* CRM SAFETY CHECK: the lead is no longer the sender's to contact
CrmBlocked(crm_status) == crm_status \notin {"", "new"}

\* An emptiness test that takes the literal "none" for a contact
NoContact_EmptyOnly(contact_raw) == contact_raw = ""

\* is_empty: the contact cell names nobody
NoContact(contact_raw) == contact_raw = "" \/ lower(contact_raw) = "none"

\* A sender without the dry-run branch
SenderDryRun_Never(MODE) == FALSE

\* MODE == "DRYRUN": the row is marked PENDING and nothing is sent
SenderDryRun(MODE) == MODE = "DRYRUN"

\* A limit that lets one more send through
LimitReached_OffByOne(sent_count, SEND_LIMIT) == sent_count > SEND_LIMIT

\* sent_count >= SEND_LIMIT
LimitReached(sent_count, SEND_LIMIT) == sent_count >= SEND_LIMIT

\* The body of the row loop of run_sender_agent for one row:
\*   row    the row as the run leaves it in memory
\*   queue  whether the row is appended to batch_ranges
\*   stop   whether the loop breaks at this row (SEND_LIMIT reached)
\*   calls  the transport calls made
\*   sent   1 when the row was sent successfully
SenderRow(row, MODE, VERIFY_ONLY, limitReached, failures) ==
    LET send_status == upper(strip(get_cell(row, "Send Status")))
        crm_status == lower(strip(get_cell(row, "Status")))
        contact_raw == strip(get_cell(row, "Contact Info"))
        to_email == extract_email(contact_raw)
        body == resolve_body(row)
        same == [row |-> row, queue |-> FALSE, stop |-> FALSE, calls |-> <<>>, sent |-> 0]
    IN  IF SenderHandled(send_status, MODE) THEN same
        ELSE IF CrmBlocked(crm_status)
        THEN [same EXCEPT
                !.row = set_cell(set_cell(row, "Send Status", "SKIPPED"),
                            "Last Error", "Skipped due to Status: " \o crm_status),
                !.queue = ~VERIFY_ONLY]
        ELSE IF ~VERIFY_ONLY /\ limitReached THEN [same EXCEPT !.stop = TRUE]
        ELSE IF VERIFY_ONLY THEN same
        ELSE IF to_email = ""
        THEN IF NoContact(contact_raw)
             THEN [same EXCEPT
                     !.row = set_cell(set_cell(row, "Send Status", "SKIPPED"),
                                 "Last Error", "No contact info found"),
                     !.queue = TRUE]
             ELSE [same EXCEPT
                     !.row = set_cell(set_cell(row, "Send Status", "MANUAL_CHECK"),
                                 "Last Error", "Non-email contact found"),
                     !.queue = TRUE]
        ELSE IF body = ""
        THEN [same EXCEPT
                !.row = set_cell(set_cell(set_cell(row, "Send Mode", MODE),
                            "Send Status", "FAILED"),
                            "Last Error", "Missing Draft Email"),
                !.queue = TRUE]
        ELSE IF SenderDryRun(MODE)
        THEN [same EXCEPT
                !.row = set_cell(set_cell(set_cell(row, "Send Mode", MODE),
                            "Send Status", "PENDING"),
                            "Last Error", ""),
                !.queue = TRUE]
        ELSE LET r == SendWithRetries(set_cell(row, "Send Mode", MODE),
                                      to_email, MODE, failures)
             IN  [row |-> r.row, queue |-> TRUE, stop |-> FALSE,
                  calls |-> r.calls, sent |-> IF r.ok THEN 1 ELSE 0]

\* A row loop that ends at the first record whose send failed for good
RECURSIVE SenderLoop_AbortsOnFailure(_, _, _, _, _, _)
SenderLoop_AbortsOnFailure(i, st, MODE, VERIFY_ONLY, SEND_LIMIT, failures) ==
    IF i > Len(st.rows) THEN st
    ELSE LET r == SenderRow(st.rows[i], MODE, VERIFY_ONLY,
                            LimitReached(st.sent_count, SEND_LIMIT), failures[i])
             next == [rows |-> [st.rows EXCEPT ![i] = r.row],
                      batch |-> IF r.queue THEN Append(st.batch, i) ELSE st.batch,
                      calls |-> st.calls \o r.calls,
                      sent_count |-> st.sent_count + r.sent,
                      stopped |-> 0]
         IN  IF r.stop THEN [st EXCEPT !.stopped = i]
             ELSE IF r.calls # <<>> /\ r.sent = 0 THEN next
             ELSE SenderLoop_AbortsOnFailure(i + 1, next, MODE, VERIFY_ONLY, SEND_LIMIT,
                                             failures)

\* The row loop of run_sender_agent from row i on:
\*   st.rows    the rows in memory,  st.batch  the indices queued in batch_ranges,
\*   st.calls   the transport calls,  st.sent_count  the successful sends,
\*   st.stopped the row at which the loop broke (0: it ran to the end)
RECURSIVE SenderLoop(_, _, _, _, _, _)
SenderLoop(i, st, MODE, VERIFY_ONLY, SEND_LIMIT, failures) ==
    IF i > Len(st.rows) THEN st
    ELSE LET r == SenderRow(st.rows[i], MODE, VERIFY_ONLY,
                            LimitReached(st.sent_count, SEND_LIMIT), failures[i])
         IN  IF r.stop THEN [st EXCEPT !.stopped = i]
             ELSE SenderLoop(i + 1,
                    [rows |-> [st.rows EXCEPT ![i] = r.row],
                     batch |-> IF r.queue THEN Append(st.batch, i) ELSE st.batch,
                     calls |-> st.calls \o r.calls,
                     sent_count |-> st.sent_count + r.sent,
                     stopped |-> 0],
                    MODE, VERIFY_ONLY, SEND_LIMIT, failures)

\* ws.batch_update(batch_ranges): the queued rows replace the stored ones
SavedRows(stored, st) ==
    [i \in 1..Len(stored) |->
        IF \E k \in 1..Len(st.batch) : st.batch[k] = i THEN st.rows[i] ELSE stored[i]]

\* Safety & Batching
BATCH_SAVE_SIZE == 10

\* batch_ranges after a clear that does not wait for the save to succeed
QueueAfterSave_Cleared(batch, ok) == <<>>

\* batch_ranges after ws.batch_update(batch_ranges) in the BATCH SAVE LOGIC:
\* emptied when the call returned, kept when it raised
QueueAfterSave(batch, ok) == IF ok THEN <<>> ELSE batch

\* ws.batch_update(batch_ranges) called with the queue of st; saveOk[k] tells
\* whether the k-th call of the run returns.  The stored rows change only
\* when it does.
BatchUpdate(st, saveOk) ==
    [st EXCEPT
        !.saves = Append(st.saves, [rows |-> st.batch, ok |-> saveOk[Len(st.saves) + 1]]),
        !.stored = IF saveOk[Len(st.saves) + 1] THEN SavedRows(st.stored, st)
                   ELSE st.stored]

\* The BATCH SAVE LOGIC at the end of an iteration
SavedBatch(st, saveOk) ==
    [BatchUpdate(st, saveOk) EXCEPT
        !.batch = QueueAfterSave(st.batch, saveOk[Len(st.saves) + 1])]

\* The state of the loop after the body of the iteration for row i
Queued(st, i, r) ==
    [st EXCEPT
        !.rows = [st.rows EXCEPT ![i] = r.row],
        !.batch = IF r.queue THEN Append(st.batch, i) ELSE st.batch,
        !.calls = st.calls \o r.calls,
        !.sent_count = st.sent_count + r.sent]

\* The rows the loop leaves with `continue`: they skip the BATCH SAVE LOGIC
\* of their iteration
Continues(row, MODE) ==
    \/ SenderHandled(upper(strip(get_cell(row, "Send Status"))), MODE)
    \/ CrmBlocked(lower(strip(get_cell(row, "Status"))))

\* The row loop of a run that is not VERIFY_ONLY, with its BATCH SAVE LOGIC:
\*   st.stored  the rows of the sheet,  st.saves  the batch_update calls made
RECURSIVE SenderBatchLoop(_, _, _, _, _, _)
RECURSIVE SenderBatchStep(_, _, _, _, _, _, _)
RECURSIVE SenderBatchSave(_, _, _, _, _, _, _)
SenderBatchLoop(i, st, MODE, SEND_LIMIT, failures, saveOk) ==
    IF i > Len(st.rows) THEN st
    ELSE SenderBatchStep(i, st,
            SenderRow(st.rows[i], MODE, FALSE, LimitReached(st.sent_count, SEND_LIMIT),
                      failures[i]),
            MODE, SEND_LIMIT, failures, saveOk)

SenderBatchStep(i, st, r, MODE, SEND_LIMIT, failures, saveOk) ==
    IF r.stop THEN [st EXCEPT !.stopped = i]
    ELSE SenderBatchSave(i, Queued(st, i, r), Continues(st.rows[i], MODE),
                         MODE, SEND_LIMIT, failures, saveOk)

SenderBatchSave(i, next, continues, MODE, SEND_LIMIT, failures, saveOk) ==
    SenderBatchLoop(i + 1,
        IF ~continues /\ Len(next.batch) >= BATCH_SAVE_SIZE
        THEN SavedBatch(next, saveOk) ELSE next,
        MODE, SEND_LIMIT, failures, saveOk)

\* Final Save: the queue that is left is passed to ws.batch_update outside
\* any try, so that the run raises when the call does
FinalSave(st, saveOk) ==
    IF st.batch = <<>> THEN st
    ELSE [BatchUpdate(st, saveOk) EXCEPT !.raised = ~saveOk[Len(st.saves) + 1]]

---------------------------------------------------------------------------
(* automation_manager.py *)

MAX_FOLLOWUPS == 5
ARCHIVE_COOLDOWN_DAYS == 3
DEFAULT_WAIT_DAYS == 7

\* WAIT_SCHEDULE.get(count, 7)
WAIT_SCHEDULE(count) ==
    CASE count = 1 -> 2
      [] count = 2 -> 5
      [] count = 3 -> 7
      [] count = 4 -> 9
      [] OTHER     -> DEFAULT_WAIT_DAYS

TemplateStages == 2..5

\* TEMPLATES[stage]["subject"].format(job=job)
TemplateSubject(stage, job) ==
    CASE stage = 2 -> "Your " \o job \o " hire made simple"
      [] stage = 3 -> "Proven VA support for " \o job
      [] stage = 4 -> "Still looking for a " \o job \o " VA?"
      [] stage = 5 -> "Closing the loop on " \o job

\* The count the planner reads: get_all_records turns a numeric cell into a
\* number, an empty cell counts 0, and int() of any other text raises (count 0)
PlannerCount(row) ==
    LET raw_count == strip(get_cell(row, "Followup Count"))
    IN  IF isdigit(raw_count) THEN int(raw_count) ELSE 0

\* A planner that does not read Last Sent At
PlannerDaysSince_Forgotten(row, today) == NO_DATE_DAYS

PlannerDaysSince(row, today) == get_days_diff(strip(get_cell(row, "Last Sent At")), today)

\* A planner that also works on leads the operator has taken over
PlannerConsiders_InProgress(row) ==
    strip(get_cell(row, "Status")) \in {"Follow-up", "In Progress"}

\* The records the planner considers at all
PlannerConsiders(row) == strip(get_cell(row, "Status")) = "Follow-up"

\* An archive rule without the cooldown
PlannerArchives_NoCooldown(row, today) ==
    /\ strip(get_cell(row, "Status")) = "Follow-up"
    /\ PlannerCount(row) >= MAX_FOLLOWUPS

\* A planner without the archive rule
PlannerArchives_Never(row, today) == FALSE

\* LOGIC 1: the row is moved to Lost_Leads
PlannerArchives(row, today) ==
    /\ PlannerConsiders(row)
    /\ PlannerCount(row) >= MAX_FOLLOWUPS
    /\ PlannerDaysSince(row, today) >= ARCHIVE_COOLDOWN_DAYS

\* A send rule that waits one day too long
PlannerDue_StrictWait(row, today) ==
    /\ strip(get_cell(row, "Status")) = "Follow-up"
    /\ extract_email(strip(get_cell(row, "Contact Info"))) # ""
    /\ PlannerCount(row) < MAX_FOLLOWUPS
    /\ PlannerDaysSince(row, today) > WAIT_SCHEDULE(PlannerCount(row))
    /\ (PlannerCount(row) + 1) \in TemplateStages

\* LOGIC 2: a follow-up is due and has a template
PlannerDue(row, today) ==
    /\ PlannerConsiders(row)
    /\ extract_email(strip(get_cell(row, "Contact Info"))) # ""
    /\ PlannerCount(row) < MAX_FOLLOWUPS
    /\ PlannerDaysSince(row, today) >= WAIT_SCHEDULE(PlannerCount(row))
    /\ (PlannerCount(row) + 1) \in TemplateStages

\* A planner that treats MOCK as REAL
PlannerSends_Mock(MODE) == MODE \in {"REAL", "MOCK"}

\* MODE == "REAL": the planner sends and writes; any other mode only logs
PlannerSends(MODE) == MODE = "REAL"

\* The row copied for the archive
ArchiveRow(row) ==
    set_cell(set_cell(row, "Status", "Lost"),
             "Notes", get_cell(row, "Notes") \o " | Auto-archived after 5 attempts")

\* Updates that count the follow-up down instead of up
FollowupUpdates_CountsDown(row, today) ==
    <<[kind |-> "cell", link |-> row["Link"], col |-> "Last Sent At", value |-> str(today)],
      [kind |-> "cell", link |-> row["Link"], col |-> "Followup Count",
       value |-> str(PlannerCount(row) - 1)],
      [kind |-> "cell", link |-> row["Link"], col |-> "Send Status", value |-> "SENT_AUTO"]>>

\* Updates that mark the follow-up with a status of their own
FollowupUpdates_OtherStatus(row, today) ==
    <<[kind |-> "cell", link |-> row["Link"], col |-> "Last Sent At", value |-> str(today)],
      [kind |-> "cell", link |-> row["Link"], col |-> "Followup Count",
       value |-> str(PlannerCount(row) + 1)],
      [kind |-> "cell", link |-> row["Link"], col |-> "Send Status", value |-> "SENT_FOLLOWUP"]>>

\* Updates that leave the count as it was read
FollowupUpdates_KeepsCount(row, today) ==
    <<[kind |-> "cell", link |-> row["Link"], col |-> "Last Sent At", value |-> str(today)],
      [kind |-> "cell", link |-> row["Link"], col |-> "Followup Count",
       value |-> str(PlannerCount(row))],
      [kind |-> "cell", link |-> row["Link"], col |-> "Send Status", value |-> "SENT_AUTO"]>>

\* The three update_cell calls after a follow-up was sent, in their order
FollowupUpdates(row, today) ==
    <<[kind |-> "cell", link |-> row["Link"], col |-> "Last Sent At", value |-> str(today)],
      [kind |-> "cell", link |-> row["Link"], col |-> "Followup Count",
       value |-> str(PlannerCount(row) + 1)],
      [kind |-> "cell", link |-> row["Link"], col |-> "Send Status", value |-> "SENT_AUTO"]>>

RECURSIVE ApplyCells(_, _)
ApplyCells(row, ws) ==
    IF ws = <<>> THEN row
    ELSE ApplyCells(set_cell(row, Head(ws).col, Head(ws).value), Tail(ws))

\* A planner that records the follow-up although the transport raised
SendFollowup_IgnoresFailure(st, i, call, done) ==
    [st EXCEPT !.rows[i] = ApplyCells(@, done),
               !.calls = Append(@, call),
               !.writes = @ \o done]

\* send_real and the three update_cell calls of row i, all in one try block:
\* when the transport raises nothing is written
SendFollowup(st, i, call, done) ==
    IF call.ok
    THEN [st EXCEPT !.rows[i] = ApplyCells(@, done),
                    !.calls = Append(@, call),
                    !.writes = @ \o done]
    ELSE [st EXCEPT !.calls = Append(@, call)]

\* The row loop of process_daily_automation from row i on.  sendOk[i]: the
\* transport accepts the message for row i; accepted[i]: how many of the three
\* update_cell calls the store accepts before one raises.
\*   st.rows  the active sheet,  st.archive  the indices marked for archival
RECURSIVE PlannerLoop(_, _, _, _, _, _)
PlannerLoop(i, st, MODE, today, sendOk, accepted) ==
    IF i > Len(st.rows) THEN st
    ELSE LET row == st.rows[i]
             job == IF strip(get_cell(row, "Job Title")) = "" THEN "your role"
                    ELSE strip(get_cell(row, "Job Title"))
             call == [link |-> row["Link"],
                      to |-> extract_email(strip(get_cell(row, "Contact Info"))),
                      stage |-> PlannerCount(row) + 1,
                      subject |-> TemplateSubject(PlannerCount(row) + 1, job),
                      via |-> MODE, ok |-> sendOk[i],
                      err |-> IF sendOk[i] THEN "" ELSE SMTP_ERROR]
             done == SubSeq(FollowupUpdates(row, today), 1, accepted[i])
             next ==
                IF PlannerArchives(row, today)
                THEN [st EXCEPT !.archive = Append(@, i)]
                ELSE IF PlannerDue(row, today) /\ PlannerSends(MODE)
                THEN SendFollowup(st, i, call, done)
                ELSE st
         IN  PlannerLoop(i + 1, next, MODE, today, sendOk, accepted)

\* ws.delete_rows(idx)
DeleteRow(rows, idx) == SubSeq(rows, 1, idx - 1) \o SubSeq(rows, idx + 1, Len(rows))

\* Deleting the rows of `idxs` (descending) one by one; only the first
\* `deletes` calls are accepted, the next one raises and ends the loop
RECURSIVE DeleteDescending(_, _, _)
DeleteDescending(rows, idxs, deletes) ==
    IF idxs = <<>> \/ deletes = 0 THEN rows
    ELSE DeleteDescending(DeleteRow(rows, Head(idxs)), Tail(idxs), deletes - 1)

\* ws.delete_rows called for the rows of `made` one by one, each call in a try
\* block of its own: a call that raises leaves the sheet as it is and the
\* loop goes on
RECURSIVE DeleteEach(_, _)
DeleteEach(rows, made) ==
    IF made = <<>> THEN rows
    ELSE DeleteEach(IF Head(made).ok THEN DeleteRow(rows, Head(made).idx) ELSE rows,
                    Tail(made))

\* The delete calls made for the rows of `idxs` of the fetched rows, in their
\* order; ok[k]: the store accepts the k-th call
DeleteCalls(rows, idxs, ok) ==
    [k \in 1..Len(idxs) |-> [idx |-> idxs[k], link |-> rows[idxs[k]]["Link"], ok |-> ok[k]]]

\* A sort that leaves the indices in the order they were collected
SortedDescending_AsCollected(xs) == xs

\* sorted(xs, reverse=True) for a sequence of distinct row indices
RECURSIVE SortedDescending(_)
SortedDescending(xs) ==
    IF xs = <<>> THEN <<>>
    ELSE LET m == CHOOSE k \in 1..Len(xs) : \A j \in 1..Len(xs) : xs[j] <= xs[k]
         IN  <<xs[m]>> \o SortedDescending(SubSeq(xs, 1, m - 1) \o SubSeq(xs, m + 1, Len(xs)))

---------------------------------------------------------------------------
(* maintenance_tool.py *)

\* PHASE 2: a row without contact information is deleted
RepairDeletes(row) ==
    LET contact_val == strip(get_cell(row, "Contact Info"))
    IN  contact_val = "" \/ lower(contact_val) = "none"

\* A corruption test without the length limit
looks_corrupt_chars_AnyLength(val) ==
    \/ contains(val, "@")
    \/ contains(val, "Hi ")
    \/ ~isdigit(val)

looks_corrupt_chars(val) ==
    \/ Len(val) > 5
    \/ contains(val, "@")
    \/ contains(val, "Hi ")
    \/ ~isdigit(val)

CorruptTable == [s \in Texts |-> looks_corrupt_chars(s)]
looks_corrupt(val) == IF val \in Texts THEN CorruptTable[val] ELSE looks_corrupt_chars(val)

\* A counter repair that blanks the cell
CounterRepair_Blank(row) ==
    IF looks_corrupt(get_cell(row, "Followup Count"))
    THEN <<[kind |-> "cell", link |-> row["Link"], col |-> "Followup Count", value |-> ""]>>
    ELSE <<>>

\* PHASE 3 A: the cell update that repairs a corrupted Followup Count
CounterRepair(row) ==
    IF looks_corrupt(get_cell(row, "Followup Count"))
    THEN <<[kind |-> "cell", link |-> row["Link"], col |-> "Followup Count",
            value |-> IF get_cell(row, "Status") \in {"Follow-up", "In Progress"}
                      THEN "1" ELSE "0"]>>
    ELSE <<>>

\* A reset that does not protect SENT
RepairProtected_NoSent == {"MANUAL_CHECK", "SKIPPED"}

RepairProtected == {"SENT", "MANUAL_CHECK", "SKIPPED"}

\* A reset that leaves Send Attempts as it is
SmartReset_KeepsAttempts(row) ==
    LET status_val == get_cell(row, "Send Status")
        needs_clean == \/ get_cell(row, "Send Mode") # ""
                       \/ get_cell(row, "Last Error") # ""
                       \/ status_val # ""
        cell(col, v) == [kind |-> "cell", link |-> row["Link"], col |-> col, value |-> v]
    IN  IF status_val \notin RepairProtected /\ needs_clean
        THEN <<cell("Send Status", ""), cell("Send Mode", ""), cell("Last Error", "")>>
        ELSE <<>>

\* PHASE 3 B: the cell updates that reset a stuck record
SmartReset(row) ==
    LET status_val == get_cell(row, "Send Status")
        needs_clean == \/ get_cell(row, "Send Mode") # ""
                       \/ get_cell(row, "Last Error") # ""
                       \/ status_val # ""
        cell(col, v) == [kind |-> "cell", link |-> row["Link"], col |-> col, value |-> v]
    IN  IF status_val \notin RepairProtected /\ needs_clean
        THEN <<cell("Send Status", ""), cell("Send Mode", ""),
               cell("Last Error", ""), cell("Send Attempts", "0")>>
        ELSE <<>>

\* An enrichment that redrafts every record with a description
NeedsDraft_Always(row) == Len(get_cell(row, "Description")) > 20

\* PHASE 4: the record gets an AI draft
NeedsDraft(row) ==
    get_cell(row, "Draft Email") = "" /\ Len(get_cell(row, "Description")) > 20

Enrichment(row) ==
    <<[kind |-> "cell", link |-> row["Link"], col |-> "Draft Email", value |-> AI_DRAFT],
      [kind |-> "cell", link |-> row["Link"], col |-> "Email Subject",
       value |-> "Quick question about your " \o get_cell(row, "Job Title") \o " role"]>>

\* A deletion phase that collects the rows top-down
RECURSIVE rows_to_delete_Forward(_, _)
rows_to_delete_Forward(rows, i) ==
    IF i < 1 THEN <<>>
    ELSE rows_to_delete_Forward(rows, i - 1) \o (IF RepairDeletes(rows[i]) THEN <<i>> ELSE <<>>)

\* PHASE 2: the rows marked for deletion, in the order the reversed loop
\* appends them (bottom row first); i is the index of a data row, the i-th row
\* below the header
RECURSIVE rows_to_delete(_, _)
rows_to_delete(rows, i) ==
    IF i < 1 THEN <<>>
    ELSE (IF RepairDeletes(rows[i]) THEN <<i>> ELSE <<>>) \o rows_to_delete(rows, i - 1)

\* The rows that survive the deletion phase: ws.delete_rows is called for the
\* marked rows one by one, each on the sheet the calls before it left
KeepContactable(rows, deleteOk) ==
    DeleteEach(rows, DeleteCalls(rows, rows_to_delete(rows, Len(rows)), deleteOk))

\* The delete calls the store accepted
RECURSIVE DeletionWrites(_)
DeletionWrites(made) ==
    IF made = <<>> THEN <<>>
    ELSE (IF Head(made).ok
          THEN <<[kind |-> "delete", link |-> Head(made).link, col |-> "", value |-> ""]>>
          ELSE <<>>) \o DeletionWrites(Tail(made))

\* The batch of PHASE 3 for the rows from i on
RECURSIVE RepairBatch(_, _)
RepairBatch(rows, i) ==
    IF i > Len(rows) THEN <<>>
    ELSE CounterRepair(rows[i]) \o SmartReset(rows[i]) \o RepairBatch(rows, i + 1)

\* The store after a sequence of cell updates
RECURSIVE ApplyBatch(_, _)
ApplyBatch(rows, ws) ==
    IF ws = <<>> THEN rows
    ELSE ApplyBatch([i \in 1..Len(rows) |->
                        IF rows[i]["Link"] = Head(ws).link
                        THEN set_cell(rows[i], Head(ws).col, Head(ws).value)
                        ELSE rows[i]],
                    Tail(ws))

\* The extract_data_with_ai calls of PHASE 4 for the rows from i on, each in
\* a try block of its own; aiOk[i]: the call for row i returns (it raises
\* otherwise)
RECURSIVE DraftingCalls(_, _, _)
DraftingCalls(rows, i, aiOk) ==
    IF i > Len(rows) THEN <<>>
    ELSE (IF NeedsDraft(rows[i])
          THEN <<[row |-> i, link |-> rows[i]["Link"], ok |-> aiOk[i]]>> ELSE <<>>)
         \o DraftingCalls(rows, i + 1, aiOk)

\* The update_cell calls that follow the drafting calls that returned
RECURSIVE DraftWrites(_, _)
DraftWrites(rows, made) ==
    IF made = <<>> THEN <<>>
    ELSE (IF Head(made).ok THEN Enrichment(rows[Head(made).row]) ELSE <<>>)
         \o DraftWrites(rows, Tail(made))

\* The update_cell calls of PHASE 4 for the rows from i on: a row whose
\* drafting call raises is skipped
EnrichmentWrites(rows, i, aiOk) == DraftWrites(rows, DraftingCalls(rows, i, aiOk))

---------------------------------------------------------------------------
(* retroactive_validator.py *)

MIN_MONTHLY_USD == 1280
MIN_MONTHLY_PHP == 70000

\* The rows the validator marks, in the order its loop appends them (top row
\* first); a row too short to have a Salary cell is passed over
RECURSIVE salary_rows_to_delete(_, _, _)
salary_rows_to_delete(rows, i, UNKNOWN_POLICY) ==
    IF i > Len(rows) THEN <<>>
    ELSE (IF /\ "Salary" \in DOMAIN rows[i]
             /\ is_salary_too_low(rows[i]["Salary"], MIN_MONTHLY_USD, MIN_MONTHLY_PHP,
                                  UNKNOWN_POLICY)
          THEN <<i>> ELSE <<>>)
         \o salary_rows_to_delete(rows, i + 1, UNKNOWN_POLICY)

---------------------------------------------------------------------------
(* The initial sheet: leads at the points of their life the programs and the *)
(* operator leave them in                                                    *)

LinkOf(i) == "L" \o str(i)

\* Last Sent At of a record whose next follow-up (or archival) is due tomorrow
DueTomorrow(followup) ==
    LET count == IF isdigit(followup) THEN int(followup) ELSE 0
        wait == IF count >= MAX_FOLLOWUPS THEN ARCHIVE_COOLDOWN_DAYS ELSE WAIT_SCHEDULE(count)
    IN  str(StartDay - (wait - 1))

\* Admitted and not yet contacted: with and without draft, with a phone
\* number, with no contact at all
FreshLeads(link) ==
    {Lead(link, EMAIL, "New", "", "", "", DRAFT),
     Lead(link, EMAIL, "New", "", "", "", ""),
     Lead(link, PHONE, "New", "", "", "", DRAFT),
     Lead(link, "None", "New", "", "", "", DRAFT)}

\* Contacted and in the follow-up cadence: mid-cadence, before the last stage,
\* exhausted, without a timestamp, with a corrupted counter (a text, and a
\* number too long to be a count next to a text for a timestamp), and taken
\* over by the operator
FollowupLeads(link) ==
    {Lead(link, EMAIL, "Follow-up", "SENT", "2", DueTomorrow("2"), DRAFT),
     Lead(link, EMAIL, "Follow-up", "SENT_AUTO", "4", DueTomorrow("4"), DRAFT),
     Lead(link, EMAIL, "Follow-up", "SENT_AUTO", "5", DueTomorrow("5"), DRAFT),
     Lead(link, EMAIL, "Follow-up", "SENT", "1", "", DRAFT),
     Lead(link, EMAIL, "Follow-up", "SENT", "Hi there", "", DRAFT),
     Lead(link, EMAIL, "Follow-up", "SENT", "123456", "Hi there", DRAFT),
     Lead(link, EMAIL, "In Progress", "SENT", "", DueTomorrow("1"), DRAFT)}

SeedLeads(link) == FreshLeads(link) \cup FollowupLeads(link)

InitialSheets ==
    UNION {{s \in [1..n -> UNION {SeedLeads(LinkOf(i)) : i \in 1..n}] :
               \A i \in 1..n : s[i]["Link"] = LinkOf(i)} : n \in 1..MaxRows}

NoRun ==
    [name |-> "none", MODE |-> "", VERIFY_ONLY |-> FALSE, SEND_LIMIT |-> 0, stopped |-> 0,
     again |-> FALSE, drafting |-> <<>>, missing |-> {}, deletes |-> <<>>,
     rows |-> <<>>, saves |-> <<>>, raised |-> FALSE]

Init ==
    /\ headers = Headers
    /\ sheet \in InitialSheets
    /\ lost = <<>>
    /\ now = StartDay
    /\ fetched = <<>>
    /\ op = NoRun
    /\ calls = <<>>
    /\ writes = <<>>
    /\ repaired = FALSE
    /\ screening = NoScreening
    /\ launcher = NoLauncher

---------------------------------------------------------------------------
(* The runs *)

TrackingColumns == <<"Send Mode", "Send Status", "Send Attempts", "Last Error", "Last Sent At">>
SenderRequiredColumns == {"Contact Info", "Draft Email", "Email Subject"}

\* A column check that finds every column present
missing_Nothing(headers_norm, required_cols) == {}

\* The required columns that are absent from the header row
missing(headers_norm, required_cols) ==
    {c \in required_cols : ~HasColumn(headers_norm, c)}

\* ws.update(values=[new_headers], range_name="1:1") when tracking columns
\* were appended
HeaderWrites(VERIFY_ONLY) ==
    IF VERIFY_ONLY \/ ensure_columns(headers, TrackingColumns) = headers THEN <<>>
    ELSE <<[kind |-> "header", link |-> "", col |-> "", value |-> ""]>>

AttemptsOf(row) ==
    IF isdigit(strip(get_cell(row, "Send Attempts")))
    THEN int(strip(get_cell(row, "Send Attempts"))) ELSE 0

RowWrites(rows, batch) ==
    [k \in 1..Len(batch) |->
        [kind |-> "row", link |-> rows[batch[k]]["Link"], col |-> "", value |-> ""]]

\* The end of run_sender_agent: the final ws.batch_update of the queued rows
SenderCommit(st, MODE, VERIFY_ONLY, SEND_LIMIT) ==
    /\ \A i \in 1..Len(sheet) : AttemptsOf(st.rows[i]) <= MaxAttempts
    /\ headers' = IF VERIFY_ONLY THEN headers ELSE ensure_columns(headers, TrackingColumns)
    /\ sheet' = IF VERIFY_ONLY THEN sheet ELSE SavedRows(sheet, st)
    /\ fetched' = sheet
    /\ calls' = st.calls
    /\ writes' = IF VERIFY_ONLY THEN <<>>
                 ELSE HeaderWrites(VERIFY_ONLY) \o RowWrites(st.rows, st.batch)
    /\ op' = [name |-> "sender", MODE |-> MODE, VERIFY_ONLY |-> VERIFY_ONLY,
              SEND_LIMIT |-> SEND_LIMIT, stopped |-> st.stopped, again |-> FALSE,
              drafting |-> <<>>, missing |-> {}, deletes |-> <<>>,
              rows |-> <<>>, saves |-> <<>>, raised |-> FALSE]
    /\ repaired' = FALSE
    /\ UNCHANGED <<lost, now, screening, launcher>>

\* run_sender_agent with its configuration and, per row, the number of
\* transport calls that raise before one succeeds
SenderRun(MODE, VERIFY_ONLY, SEND_LIMIT, failures) ==
    /\ op = NoRun
    /\ Len(sheet) >= 1
    /\ missing(ensure_columns(headers, TrackingColumns), SenderRequiredColumns) = {}
    /\ SenderCommit(
          SenderLoop(1, [rows |-> sheet, batch |-> <<>>, calls |-> <<>>, sent_count |-> 0,
                         stopped |-> 0],
                     MODE, VERIFY_ONLY, SEND_LIMIT, failures),
          MODE, VERIFY_ONLY, SEND_LIMIT)

\* The transport is called by a REAL run only (send_mock never raises)
NoFailures == [i \in 1..Len(sheet) |-> 0]

\* run_sender_agent raising at the required-column check: the header row may
\* have been extended by then, no row was read
SenderAbort(MODE, VERIFY_ONLY) ==
    /\ op = NoRun
    /\ Len(sheet) >= 1
    /\ missing(ensure_columns(headers, TrackingColumns), SenderRequiredColumns) # {}
    /\ headers' = IF VERIFY_ONLY THEN headers ELSE ensure_columns(headers, TrackingColumns)
    /\ fetched' = sheet
    /\ calls' = <<>>
    /\ writes' = HeaderWrites(VERIFY_ONLY)
    /\ op' = [NoRun EXCEPT
                !.name = "sender", !.MODE = MODE, !.VERIFY_ONLY = VERIFY_ONLY,
                !.missing = missing(ensure_columns(headers, TrackingColumns),
                                    SenderRequiredColumns)]
    /\ repaired' = FALSE
    /\ UNCHANGED <<sheet, lost, now, screening, launcher>>

\* The rows passed to the batch_update calls that returned
RECURSIVE SavedWrites(_, _)
SavedWrites(rows, saves) ==
    IF saves = <<>> THEN <<>>
    ELSE (IF Head(saves).ok THEN RowWrites(rows, Head(saves).rows) ELSE <<>>)
            \o SavedWrites(rows, Tail(saves))

\* The end of a run that is not VERIFY_ONLY, after its final save
SenderBatchCommit(st, MODE, SEND_LIMIT) ==
    /\ \A i \in 1..Len(sheet) : AttemptsOf(st.rows[i]) <= MaxAttempts
    /\ headers' = ensure_columns(headers, TrackingColumns)
    /\ sheet' = st.stored
    /\ fetched' = sheet
    /\ calls' = st.calls
    /\ writes' = HeaderWrites(FALSE) \o SavedWrites(st.rows, st.saves)
    /\ op' = [NoRun EXCEPT
                !.name = "sender", !.MODE = MODE, !.SEND_LIMIT = SEND_LIMIT,
                !.stopped = st.stopped, !.rows = st.rows, !.saves = st.saves,
                !.raised = st.raised]
    /\ repaired' = FALSE
    /\ UNCHANGED <<lost, now, screening, launcher>>

\* run_sender_agent, not VERIFY_ONLY, over a sheet long enough for the
\* intermediate saves; saveOk tells which batch_update calls return
SenderBatchRun(MODE, SEND_LIMIT, failures, saveOk) ==
    /\ op = NoRun
    /\ Len(sheet) >= 1
    /\ missing(ensure_columns(headers, TrackingColumns), SenderRequiredColumns) = {}
    /\ SenderBatchCommit(
          FinalSave(
              SenderBatchLoop(1, [rows |-> sheet, batch |-> <<>>, calls |-> <<>>,
                                  sent_count |-> 0, stopped |-> 0, stored |-> sheet,
                                  saves |-> <<>>, raised |-> FALSE],
                              MODE, SEND_LIMIT, failures, saveOk),
              saveOk),
          MODE, SEND_LIMIT)

Sender ==
    \E MODE \in Modes, VERIFY_ONLY \in BOOLEAN, SEND_LIMIT \in 1..Len(sheet) :
        \E failures \in [1..Len(sheet) -> 0..MAX_RETRIES] :
            /\ (MODE # "REAL" \/ VERIFY_ONLY) => failures = NoFailures
            /\ (MODE = "DRYRUN" \/ VERIFY_ONLY) => SEND_LIMIT = Len(sheet)
            /\ (MODE = "MOCK" /\ VERIFY_ONLY) => FALSE
            /\ SenderRun(MODE, VERIFY_ONLY, SEND_LIMIT, failures)

PlannerRequiredColumns == {"Last Sent At", "Followup Count", "Send Status"}

ArchiveWrites(appended, deleted) ==
    [k \in 1..Len(appended) |->
        [kind |-> "append", link |-> appended[k]["Link"], col |-> "", value |-> ""]]
    \o [k \in 1..Len(deleted) |->
        [kind |-> "delete", link |-> sheet[deleted[k]]["Link"], col |-> "", value |-> ""]]

\* An archive step that deletes the marked rows whether or not they were
\* appended to Lost_Leads
ExecuteArchive_DeletesAnyway(rows, order, appendOk, deletes) ==
    DeleteDescending(rows, order, deletes)

\* The active sheet after the archive step: append_rows and the deletions
\* share one try block, so nothing is deleted when the append raises
ExecuteArchive(rows, order, appendOk, deletes) ==
    IF appendOk THEN DeleteDescending(rows, order, deletes) ELSE rows

\* EXECUTE ARCHIVE: the marked rows are appended to Lost_Leads, then deleted
\* from the active sheet in descending row order
PlannerCommit(st, order, MODE, appendOk, deletes) ==
    /\ sheet' = IF st.archive # <<>> /\ PlannerSends(MODE)
                THEN ExecuteArchive(st.rows, order, appendOk, deletes)
                ELSE st.rows
    /\ IF st.archive # <<>> /\ PlannerSends(MODE) /\ appendOk
       THEN /\ lost' = lost \o [k \in 1..Len(st.archive) |-> ArchiveRow(sheet[st.archive[k]])]
            /\ writes' = st.writes \o
                  ArchiveWrites([k \in 1..Len(st.archive) |-> sheet[st.archive[k]]],
                                SubSeq(order, 1, IF deletes < Len(order)
                                                 THEN deletes ELSE Len(order)))
       ELSE /\ lost' = lost
            /\ writes' = st.writes
    /\ fetched' = sheet
    /\ calls' = st.calls
    /\ op' = [NoRun EXCEPT
                !.name = "planner", !.MODE = MODE,
                !.deletes =
                    IF st.archive # <<>> /\ PlannerSends(MODE) /\ appendOk
                    THEN DeleteCalls(sheet,
                                     SubSeq(order, 1, IF deletes < Len(order)
                                                      THEN deletes + 1 ELSE Len(order)),
                                     [k \in 1..Len(order) |-> k <= deletes])
                    ELSE <<>>]
    /\ repaired' = FALSE
    /\ UNCHANGED <<headers, now, screening, launcher>>

PlannerOrder(st, MODE, appendOk, deletes) ==
    PlannerCommit(st, SortedDescending(st.archive), MODE, appendOk, deletes)

\* process_daily_automation with its mode, the transport's answer per row and
\* what the store accepts: accepted[i] of the three cell updates of row i,
\* the append to Lost_Leads, and `deletes` row deletions
PlannerRun(MODE, sendOk, accepted, appendOk, deletes) ==
    /\ op = NoRun
    /\ Len(sheet) >= 1
    /\ missing(headers, PlannerRequiredColumns) = {}
    /\ PlannerOrder(
          PlannerLoop(1, [rows |-> sheet, calls |-> <<>>, writes |-> <<>>, archive |-> <<>>],
                      MODE, now, sendOk, accepted),
          MODE, appendOk, deletes)

\* process_daily_automation returning at the column mapping
PlannerAbort(MODE) ==
    /\ op = NoRun
    /\ Len(sheet) >= 1
    /\ missing(headers, PlannerRequiredColumns) # {}
    /\ fetched' = sheet
    /\ calls' = <<>>
    /\ writes' = <<>>
    /\ op' = [NoRun EXCEPT !.name = "planner", !.MODE = MODE,
                           !.missing = missing(headers, PlannerRequiredColumns)]
    /\ repaired' = FALSE
    /\ UNCHANGED <<headers, sheet, lost, now, screening, launcher>>

AllSent == [i \in 1..Len(sheet) |-> TRUE]

Planner ==
    \E MODE \in Modes : \E sendOk \in [1..Len(sheet) -> BOOLEAN] :
        /\ MODE # "REAL" => sendOk = AllSent
        /\ PlannerRun(MODE, sendOk, [i \in 1..Len(sheet) |-> 3], TRUE, Len(sheet))

\* PHASE 4 and the end of clean_and_enrich_db
RepairCommit(kept, batch, drafts, drafting, deleted) ==
    /\ sheet' = IF kept = <<>> THEN kept ELSE ApplyBatch(ApplyBatch(kept, batch), drafts)
    /\ writes' = DeletionWrites(deleted)
                    \o (IF kept = <<>> THEN <<>> ELSE batch \o drafts)
    /\ fetched' = sheet
    /\ calls' = <<>>
    /\ op' = [NoRun EXCEPT !.name = "repair", !.again = repaired, !.drafting = drafting,
                           !.deletes = deleted]
    /\ repaired' = TRUE
    /\ UNCHANGED <<headers, lost, now, screening, launcher>>

\* PHASE 3: the batch of repairs and resets
RepairPhase3(kept, batch, aiOk, deleted) ==
    RepairCommit(kept, batch, EnrichmentWrites(ApplyBatch(kept, batch), 1, aiOk),
                 IF kept = <<>> THEN <<>> ELSE DraftingCalls(ApplyBatch(kept, batch), 1, aiOk),
                 deleted)

\* PHASE 2: the deletion of the rows without contact
RepairPhase2(kept, aiOk, deleted) == RepairPhase3(kept, RepairBatch(kept, 1), aiOk, deleted)

\* clean_and_enrich_db; aiOk[i]: the drafting call for the i-th surviving row
\* returns; deleteOk[k]: the store accepts the k-th delete call
RepairRun(aiOk, deleteOk) ==
    /\ op = NoRun
    /\ Len(sheet) >= 1
    /\ HasColumn(headers, "Contact Info")
    /\ RepairPhase2(KeepContactable(sheet, deleteOk), aiOk,
                    DeleteCalls(sheet, rows_to_delete(sheet, Len(sheet)), deleteOk))

AllDeleted == [k \in 1..Len(sheet) |-> TRUE]

Repair == \E aiOk \in [1..Len(sheet) -> BOOLEAN] : RepairRun(aiOk, AllDeleted)

\* The process of the run exits; the programs run one at a time
Exit ==
    /\ op # NoRun
    /\ op' = NoRun
    /\ fetched' = <<>>
    /\ calls' = <<>>
    /\ writes' = <<>>
    /\ UNCHANGED <<headers, sheet, lost, now, repaired, screening, launcher>>

\* A day passes between two runs
Tick ==
    /\ op = NoRun
    /\ now < StartDay + MaxDays
    /\ now' = now + 1
    /\ UNCHANGED <<headers, sheet, lost, fetched, op, calls, writes, repaired,
                   screening, launcher>>

Next == Sender \/ Planner \/ Repair \/ Exit \/ Tick

Spec == Init /\ [][Next]_vars

---------------------------------------------------------------------------
(* The life of an admitted lead: the sheet holds leads as the scraper and    *)
(* the drafting step admit them, the operator overrides nothing, MODE is     *)
(* REAL, the transport and the store accept every call, and the sender and   *)
(* the planner are run again and again as the days pass.                     *)

AdmittedLead(link) == Lead(link, EMAIL, "New", "", "", "", DRAFT)

LifeSheets == {[i \in 1..n |-> AdmittedLead(LinkOf(i))] : n \in 1..MaxRows}

LifeInit ==
    /\ headers = Headers
    /\ sheet \in LifeSheets
    /\ lost = <<>>
    /\ now = StartDay
    /\ fetched = <<>>
    /\ op = NoRun
    /\ calls = <<>>
    /\ writes = <<>>
    /\ repaired = FALSE
    /\ screening = NoScreening
    /\ launcher = NoLauncher

LifeSender == SenderRun("REAL", FALSE, Len(sheet), NoFailures)

LifePlanner == PlannerRun("REAL", AllSent, [i \in 1..Len(sheet) |-> 3], TRUE, Len(sheet))

LifeTick ==
    /\ op = NoRun
    /\ now < StartDay + MaxLifeDays
    /\ now' = now + 1
    /\ UNCHANGED <<headers, sheet, lost, fetched, op, calls, writes, repaired,
                   screening, launcher>>

LifeNext == LifeSender \/ LifePlanner \/ Exit \/ LifeTick

\* Every program that is started ends, the days keep passing, and each of the
\* two programs is run again and again
LiveSpec ==
    /\ LifeInit
    /\ [][LifeNext]_vars
    /\ WF_vars(Exit)
    /\ SF_vars(LifeTick)
    /\ []<>(op.name = "sender")
    /\ []<>(op.name = "planner")

---------------------------------------------------------------------------
(* The cadence of a lead in follow-up: the sheet holds leads whose first     *)
(* message went out today, at several points of the cadence, with a counter  *)
(* that reads 0 or without an email address; MODE is REAL, the transport and *)
(* the store accept every call, and the days of a whole cadence pass.        *)

CadenceLeads(link) ==
    {Lead(link, EMAIL, "Follow-up", "SENT", "1", str(StartDay), DRAFT),
     Lead(link, EMAIL, "Follow-up", "SENT_AUTO", "3", str(StartDay), DRAFT),
     Lead(link, EMAIL, "Follow-up", "SENT", "0", str(StartDay), DRAFT),
     Lead(link, EMAIL, "Follow-up", "SENT", "Hi there", str(StartDay), DRAFT),
     Lead(link, PHONE, "Follow-up", "SENT", "1", str(StartDay), DRAFT),
     Lead(link, PHONE, "Follow-up", "SENT_AUTO", "5", str(StartDay), DRAFT)}

CadenceSheets ==
    UNION {{s \in [1..n -> UNION {CadenceLeads(LinkOf(i)) : i \in 1..n}] :
               \A i \in 1..n : s[i]["Link"] = LinkOf(i)} : n \in 1..MaxRows}

\* The leads with an email address at the start of the cadence: with a
\* counter of 1 and with a corrupted one, which the repair pass sets to 1
RepairedLeads(link) ==
    {Lead(link, EMAIL, "Follow-up", "SENT", "1", str(StartDay), DRAFT),
     Lead(link, EMAIL, "Follow-up", "SENT", "Hi there", str(StartDay), DRAFT)}

FollowupInit ==
    /\ headers = Headers
    /\ sheet \in CadenceSheets
    /\ lost = <<>>
    /\ now = StartDay
    /\ fetched = <<>>
    /\ op = NoRun
    /\ calls = <<>>
    /\ writes = <<>>
    /\ repaired = FALSE
    /\ screening = NoScreening
    /\ launcher = NoLauncher

CadenceInit ==
    /\ headers = Headers
    /\ sheet \in UNION {{s \in [1..n -> UNION {RepairedLeads(LinkOf(i)) : i \in 1..n}] :
                            \A i \in 1..n : s[i]["Link"] = LinkOf(i)} : n \in 1..MaxRows}
    /\ lost = <<>>
    /\ now = StartDay
    /\ fetched = <<>>
    /\ op = NoRun
    /\ calls = <<>>
    /\ writes = <<>>
    /\ repaired = FALSE
    /\ screening = NoScreening
    /\ launcher = NoLauncher

CadenceRepair == RepairRun([i \in 1..Len(sheet) |-> TRUE], AllDeleted)

\* The three programs are run in any order as the days pass
CadenceNext == LifeSender \/ LifePlanner \/ CadenceRepair \/ Exit \/ LifeTick

CadenceSpec == CadenceInit /\ [][CadenceNext]_vars

\* The planner alone is run again and again as the days pass
FollowupNext == LifePlanner \/ Exit \/ LifeTick

FollowupSpec ==
    /\ FollowupInit
    /\ [][FollowupNext]_vars
    /\ WF_vars(Exit)
    /\ SF_vars(LifeTick)
    /\ []<>(op.name = "planner")

---------------------------------------------------------------------------
(* Sheets long enough for the BATCH SAVE LOGIC of the sender: a run of rows *)
(* of one kind followed by rows of another, over a store that may refuse    *)
(* any batch_update.                                                         *)

\* A lead to send, one the CRM check skips, one already sent, one without
\* contact information
BatchLeads(link) ==
    <<Lead(link, EMAIL, "New", "", "0", "", DRAFT),
      Lead(link, EMAIL, "Follow-up", "", "1", str(StartDay), DRAFT),
      Lead(link, EMAIL, "New", "SENT", "0", str(StartDay), DRAFT),
      Lead(link, "None", "New", "", "0", "", DRAFT)>>

BatchSheets ==
    {[i \in 1..n |-> BatchLeads(LinkOf(i))[IF i <= a THEN x ELSE y]] :
        n \in (BATCH_SAVE_SIZE - 1)..MaxBatchRows, a \in 0..MaxBatchRows,
        x \in 1..4, y \in 1..4}

\* The batch_update calls a run over MaxBatchRows rows can make: one at the
\* end of each iteration from the BATCH_SAVE_SIZE-th on, and the final save
SaveCalls == 1..(MaxBatchRows - BATCH_SAVE_SIZE + 2)

BatchInit ==
    /\ headers = Headers
    /\ sheet \in BatchSheets
    /\ lost = <<>>
    /\ now = StartDay
    /\ fetched = <<>>
    /\ op = NoRun
    /\ calls = <<>>
    /\ writes = <<>>
    /\ repaired = FALSE
    /\ screening = NoScreening
    /\ launcher = NoLauncher

SenderBatch ==
    \E MODE \in Modes, SEND_LIMIT \in {BATCH_SAVE_SIZE, 500} :
        \E saveOk \in [SaveCalls -> BOOLEAN] :
            SenderBatchRun(MODE, SEND_LIMIT, NoFailures, saveOk)

BatchNext == SenderBatch \/ Exit

BatchSpec == BatchInit /\ [][BatchNext]_vars

---------------------------------------------------------------------------
(* The engine at rest, for the programs that do not touch the sheet *)

EngineIdle ==
    /\ headers = Headers
    /\ sheet = <<>>
    /\ lost = <<>>
    /\ now = StartDay
    /\ fetched = <<>>
    /\ op = NoRun
    /\ calls = <<>>
    /\ writes = <<>>
    /\ repaired = FALSE

(* A screening: is_salary_too_low is called once with arguments drawn from  *)
(* the compensation strings, the thresholds and the policies.               *)

SalaryInit ==
    /\ EngineIdle
    /\ launcher = NoLauncher
    /\ screening \in [raw : Compensations, min_monthly_usd : MinMonthlyUsd,
                       min_monthly_php : MinMonthlyPhp, unknown_policy : UnknownPolicies,
                       decided : {FALSE}, too_low : {FALSE}]

Screen ==
    /\ ~screening.decided
    /\ screening' =
         [screening EXCEPT
            !.decided = TRUE,
            !.too_low = is_salary_too_low(screening.raw, screening.min_monthly_usd,
                                          screening.min_monthly_php,
                                          screening.unknown_policy)]
    /\ UNCHANGED <<headers, sheet, lost, now, fetched, op, calls, writes, repaired,
                   launcher>>

SalaryNext == Screen

SalarySpec == SalaryInit /\ [][SalaryNext]_vars

(* An inference: _infer_unknown_currency_and_unit is called once with a      *)
(* detected currency and unit and with raw bounds around the limits of its   *)
(* ranges.                                                                   *)

Currencies == {"unknown", "usd", "php"}
Units == {"unknown", "hour", "week", "month", "year"}

RawValues ==
    {None, Whole(0), Num(995, 10), Whole(100), Num(3999, 10), Whole(400), Whole(4000),
     Num(40001, 10), Num(149999, 10), Whole(15000), Whole(100000), Num(1000001, 10)}

InferInit ==
    /\ EngineIdle
    /\ launcher = NoLauncher
    /\ screening \in [currency : Currencies, unit : Units, low_raw : RawValues,
                       high_raw : RawValues, decided : {FALSE}, inferred : {<<>>}]

Infer ==
    /\ ~screening.decided
    /\ screening' =
         [screening EXCEPT
            !.decided = TRUE,
            !.inferred = _infer_unknown_currency_and_unit(
                             screening.currency, screening.unit,
                             screening.low_raw, screening.high_raw)]
    /\ UNCHANGED <<headers, sheet, lost, now, fetched, op, calls, writes, repaired,
                   launcher>>

InferNext == Infer

InferSpec == InferInit /\ [][InferNext]_vars

(* A session at the launcher menu *)

MenuInit ==
    /\ EngineIdle
    /\ screening = NoScreening
    /\ launcher \in {[NoLauncher EXCEPT !.at = "menu", !.environ = e] : e \in Environments}

Menu == \E line \in Choices : MenuChoice(line)

Confirm == \E line \in Confirmations : ConfirmReal(line)

MenuNext == Menu \/ Confirm \/ PressEnter

MenuSpec == MenuInit /\ [][MenuNext]_vars

---------------------------------------------------------------------------
(* The header row as the operator may have left it: one of the columns a     *)
(* program requires has been removed or renamed, and the rows hold the cells *)
(* of the columns that remain.                                               *)

Without(hs, col) == SelectSeq(hs, LAMBDA h : h # col)

HeaderRows ==
    {Headers} \cup {Without(Headers, c) : c \in SenderRequiredColumns \cup PlannerRequiredColumns}

Under(hs, row) == [c \in {hs[i] : i \in 1..Len(hs)} |-> row[c]]

HeaderInit ==
    /\ headers \in HeaderRows
    /\ sheet \in {[i \in 1..Len(s) |-> Under(headers, s[i])] : s \in InitialSheets}
    /\ lost = <<>>
    /\ now = StartDay
    /\ fetched = <<>>
    /\ op = NoRun
    /\ calls = <<>>
    /\ writes = <<>>
    /\ repaired = FALSE
    /\ screening = NoScreening
    /\ launcher = NoLauncher

SenderAborts == \E MODE \in Modes, VERIFY_ONLY \in BOOLEAN : SenderAbort(MODE, VERIFY_ONLY)

PlannerAborts == \E MODE \in Modes : PlannerAbort(MODE)

HeaderNext == Sender \/ SenderAborts \/ Planner \/ PlannerAborts \/ Exit \/ Tick

HeaderSpec == HeaderInit /\ [][HeaderNext]_vars

---------------------------------------------------------------------------
(* The programs over a store that may refuse a write: an update of a cell,   *)
(* the append to Lost_Leads and a deletion of a row may raise.  The sheet    *)
(* has the Salary column of the scraper, which the validator reads.          *)

Salaries == {"$1000/month", "Up to 3,000USD/month"}

\* A lead not yet contacted, one without contact, one whose follow-up is due
\* and one whose cadence is exhausted and whose cooldown has passed
StoreLeads(link) ==
    {Lead(link, EMAIL, "New", "", "", "", DRAFT),
     Lead(link, "None", "New", "", "", "", DRAFT),
     Lead(link, EMAIL, "Follow-up", "SENT", "1", "", DRAFT),
     Lead(link, EMAIL, "Follow-up", "SENT_AUTO", "5",
          str(StartDay - ARCHIVE_COOLDOWN_DAYS), DRAFT)}

StoreSheets ==
    UNION {{s \in [1..n -> UNION {StoreLeads(LinkOf(i)) : i \in 1..n}] :
               \A i \in 1..n : s[i]["Link"] = LinkOf(i)} : n \in 1..MaxRows}

StoreInit ==
    /\ headers = Append(Headers, "Salary")
    /\ sheet \in {[i \in 1..Len(s) |-> set_cell(s[i], "Salary", pay[i])] :
                    s \in StoreSheets, pay \in [1..MaxRows -> Salaries]}
    /\ lost = <<>>
    /\ now = StartDay
    /\ fetched = <<>>
    /\ op = NoRun
    /\ calls = <<>>
    /\ writes = <<>>
    /\ repaired = FALSE
    /\ screening = NoScreening
    /\ launcher = NoLauncher

\* run_retroactive_validation with its policy; deleteOk[k]: the store accepts
\* the k-th delete call (each call is in a try block of its own)
ValidatorRun(UNKNOWN_POLICY, deleteOk) ==
    /\ op = NoRun
    /\ Len(sheet) >= 1
    /\ HasColumn(headers, "Salary")
    /\ LET made == DeleteCalls(sheet,
                       SortedDescending(salary_rows_to_delete(sheet, 1, UNKNOWN_POLICY)),
                       deleteOk)
       IN  /\ sheet' = DeleteEach(sheet, made)
           /\ writes' = DeletionWrites(made)
           /\ op' = [NoRun EXCEPT !.name = "validator", !.deletes = made]
    /\ fetched' = sheet
    /\ calls' = <<>>
    /\ repaired' = FALSE
    /\ UNCHANGED <<headers, lost, now, screening, launcher>>

\* The answers of the store and of the transport are drawn for the calls
\* that are made only
Validator ==
    \E UNKNOWN_POLICY \in UnknownPolicies : \E deleteOk \in [1..Len(sheet) -> BOOLEAN] :
        /\ \A k \in 1..Len(sheet) :
              k > Len(salary_rows_to_delete(sheet, 1, UNKNOWN_POLICY)) => deleteOk[k]
        /\ ValidatorRun(UNKNOWN_POLICY, deleteOk)

StorePlanner ==
    \E MODE \in Modes : \E sendOk \in [1..Len(sheet) -> BOOLEAN] :
        \E accepted \in [1..Len(sheet) -> 0..3] :
            \E appendOk \in BOOLEAN, deletes \in 0..Len(sheet) :
                /\ MODE # "REAL" =>
                        /\ sendOk = AllSent
                        /\ accepted = [i \in 1..Len(sheet) |-> 3]
                        /\ appendOk
                        /\ deletes = Len(sheet)
                /\ \A i \in 1..Len(sheet) :
                      /\ ~PlannerDue(sheet[i], now) => sendOk[i]
                      /\ ~sendOk[i] => accepted[i] = 3
                      /\ ~PlannerDue(sheet[i], now) => accepted[i] = 3
                /\ Len(lost) < MaxLost
                /\ ~appendOk => deletes = Len(sheet)
                /\ deletes < Len(sheet) =>
                      deletes < Cardinality({i \in 1..Len(sheet) :
                                                PlannerArchives(sheet[i], now)})
                /\ PlannerRun(MODE, sendOk, accepted, appendOk, deletes)

StoreRepair ==
    \E aiOk \in [1..Len(sheet) -> BOOLEAN] : \E deleteOk \in [1..Len(sheet) -> BOOLEAN] :
        /\ \A k \in 1..Len(sheet) :
              k > Len(rows_to_delete(sheet, Len(sheet))) => deleteOk[k]
        /\ RepairRun(aiOk, deleteOk)

StoreNext == StorePlanner \/ StoreRepair \/ Validator \/ Exit \/ Tick

StoreSpec == StoreInit /\ [][StoreNext]_vars

---------------------------------------------------------------------------
(* Properties.  In a state where op # NoRun a run has just ended: `fetched` *)
(* holds the rows it read, `sheet` the rows it left, `calls` and `writes`   *)
(* what it did.  A record is followed through a run by its Link.            *)

Fetched == {fetched[i] : i \in 1..Len(fetched)}

\* The record as the run left it in the active sheet (no element: deleted)
Stored(row) == {sheet[j] : j \in {k \in 1..Len(sheet) : sheet[k]["Link"] = row["Link"]}}

Archived(row) == \E k \in 1..Len(lost) : lost[k]["Link"] = row["Link"]

CallsTo(row) == SelectSeq(calls, LAMBDA c : c.link = row["Link"])
SentTo(row) == \E k \in 1..Len(calls) : calls[k].link = row["Link"] /\ calls[k].ok
CellWritesOf(row) == SelectSeq(writes, LAMBDA w : w.kind = "cell" /\ w.link = row["Link"])
WritesOf(row) == SelectSeq(writes, LAMBDA w : w.link = row["Link"])

\* The Followup Count as a number: an empty or non-numeric cell counts 0
CountOf(row) ==
    IF isdigit(strip(row["Followup Count"])) THEN int(strip(row["Followup Count"])) ELSE 0

DaysSince(row) == get_days_diff(strip(row["Last Sent At"]), now)
HasEmail(row) == extract_email(strip(row["Contact Info"])) # ""
Fresh(row) == lower(strip(row["Status"])) \in {"", "new"}
Terminal(row) == upper(strip(row["Send Status"])) \in {"SENT", "SKIPPED", "MANUAL_CHECK"}

SenderSending == op.name = "sender" /\ op.MODE \in {"REAL", "MOCK"} /\ ~op.VERIFY_ONLY

\* C1: when a sender run in REAL or MOCK mode (not VERIFY_ONLY) sends
\* successfully to a record with Status "" or New, an extractable email and a
\* draft, the row it writes back has Send Status SENT, Last Sent At now,
\* Followup Count 1 and Status Follow-up.
C1_SuccessStartsFollowup ==
    SenderSending =>
        \A r \in Fetched :
            (Fresh(r) /\ HasEmail(r) /\ strip(r["Draft Email"]) # "" /\ SentTo(r)) =>
                \E w \in Stored(r) :
                    /\ w["Send Status"] = "SENT"
                    /\ w["Last Sent At"] = str(now)
                    /\ w["Followup Count"] = "1"
                    /\ w["Status"] = "Follow-up"

\* C2: over every step that is not a repair run (sender runs, planner runs,
\* the time between them), the Followup Count of a record that stays in the
\* sheet does not decrease.
C2_CountNeverDecreases ==
    [][op'.name # "repair" =>
         \A i \in 1..Len(sheet) : \A j \in 1..Len(sheet') :
             sheet'[j]["Link"] = sheet[i]["Link"] => CountOf(sheet'[j]) >= CountOf(sheet[i])]_vars

C2_Witness ==
    /\ op.name = "planner"
    /\ \E r \in Fetched : \E w \in Stored(r) : CountOf(r) >= 1 /\ CountOf(w) = CountOf(r) + 1

\* C3 as stated: no run of the sender, the planner or the repair pass raises
\* the Followup Count of a record unless the run sent a message to that record
\* successfully.
C3_RaisedOnlyBySend ==
    op.name \in {"sender", "planner", "repair"} =>
        \A r \in Fetched : \A w \in Stored(r) : CountOf(w) > CountOf(r) => SentTo(r)

\* C3 amended: the sender and the planner raise the Followup Count of a record
\* only when they sent to it successfully in that run; the repair pass raises
\* it without a send in one case only: a cell that is not a digit string of at
\* most 5 characters is replaced by 1 when Status is Follow-up or In Progress.
C3_RaisedBySendOrRepair ==
    op.name \in {"sender", "planner", "repair"} =>
        \A r \in Fetched : \A w \in Stored(r) :
            CountOf(w) > CountOf(r) =>
                \/ op.name \in {"sender", "planner"} /\ SentTo(r)
                \/ /\ op.name = "repair"
                   /\ ~(isdigit(r["Followup Count"]) /\ Len(r["Followup Count"]) <= 5)
                   /\ r["Status"] \in {"Follow-up", "In Progress"}
                   /\ w["Followup Count"] = "1"

C3_Witness ==
    /\ op.name = "repair"
    /\ \E r \in Fetched : \E w \in Stored(r) : CountOf(w) > CountOf(r) /\ ~SentTo(r)

\* C4: the repair pass leaves Send Status and Send Attempts of a record whose
\* Send Status is SENT, MANUAL_CHECK or SKIPPED as they were, on every such
\* record it keeps in the sheet.
C4_ProtectedKept ==
    op.name = "repair" =>
        \A r \in Fetched :
            r["Send Status"] \in {"SENT", "MANUAL_CHECK", "SKIPPED"} =>
                \A w \in Stored(r) :
                    /\ w["Send Status"] = r["Send Status"]
                    /\ w["Send Attempts"] = r["Send Attempts"]

C4_Witness ==
    /\ op.name = "repair"
    /\ writes # <<>>
    /\ \E r \in Fetched : \E w \in Stored(r) :
          /\ r["Send Status"] = "SENT"
          /\ r["Send Mode"] = "REAL"
          /\ r["Send Attempts"] = "2"
          /\ w["Send Attempts"] = "2"

\* C5 as stated: a record with Send Status SENT is in the sheet after the
\* repair pass with every field as before.
C5_SentUntouched ==
    op.name = "repair" =>
        \A r \in Fetched : r["Send Status"] = "SENT" => r \in Stored(r)

\* C5 amended: a record with Send Status SENT and contact information is not
\* deleted by the repair pass and keeps every field but these: a Followup
\* Count that is not a digit string of at most 5 characters is rewritten, and
\* an empty Draft Email (with its Email Subject) is regenerated.
C5_SentKeptButCounter ==
    op.name = "repair" =>
        \A r \in Fetched :
            (r["Send Status"] = "SENT" /\ lower(strip(r["Contact Info"])) \notin {"", "none"}) =>
                \E w \in Stored(r) :
                    /\ \A c \in DOMAIN r \ {"Followup Count", "Draft Email", "Email Subject"} :
                          w[c] = r[c]
                    /\ (isdigit(r["Followup Count"]) /\ Len(r["Followup Count"]) <= 5) =>
                          w["Followup Count"] = r["Followup Count"]
                    /\ r["Draft Email"] # "" =>
                          /\ w["Draft Email"] = r["Draft Email"]
                          /\ w["Email Subject"] = r["Email Subject"]

C5_Witness ==
    /\ op.name = "repair"
    /\ \E r \in Fetched : \E w \in Stored(r) :
          /\ r["Send Status"] = "SENT"
          /\ r["Send Mode"] # ""
          /\ ~isdigit(r["Followup Count"])
          /\ w["Followup Count"] # r["Followup Count"]

\* C6: a planner run archives a record (appends it to Lost_Leads, deletes it
\* from the active sheet) only if its Status is Follow-up, its Followup Count
\* is at least MAX_FOLLOWUPS and at least 3 days have passed since Last Sent At.
C6_ArchiveOnlyExhausted ==
    op.name = "planner" =>
        \A r \in Fetched :
            (Stored(r) = {} \/ Archived(r)) =>
                /\ r["Status"] = "Follow-up"
                /\ CountOf(r) >= MAX_FOLLOWUPS
                /\ DaysSince(r) >= ARCHIVE_COOLDOWN_DAYS

C6_Witness ==
    /\ op.name = "planner"
    /\ \E r \in Fetched : Stored(r) = {} /\ Archived(r) /\ DaysSince(r) = ARCHIVE_COOLDOWN_DAYS
    /\ \E r \in Fetched :
          /\ r["Status"] = "Follow-up" /\ CountOf(r) < MAX_FOLLOWUPS
          /\ DaysSince(r) >= ARCHIVE_COOLDOWN_DAYS
          /\ Stored(r) # {} /\ ~Archived(r)

\* C7 as stated: a sender run never calls the transport for a record whose
\* Status is neither "" nor New, and unless the Send Status of such a record is
\* SENT, SKIPPED or MANUAL_CHECK the run leaves it with Send Status SKIPPED and
\* a Last Error that names the status.
C7_TakenOverSkipped ==
    op.name = "sender" =>
        \A i \in 1..Len(fetched) :
            ~Fresh(fetched[i]) =>
                /\ CallsTo(fetched[i]) = <<>>
                /\ ~Terminal(fetched[i]) =>
                      /\ sheet[i]["Send Status"] = "SKIPPED"
                      /\ sheet[i]["Last Error"] =
                            "Skipped due to Status: " \o lower(strip(fetched[i]["Status"]))

\* C7 amended: a sender run never calls the transport for a record whose
\* Status is neither "" nor New.  A run without VERIFY_ONLY that reaches such a
\* record before it stops at SEND_LIMIT leaves it with Send Status SKIPPED and
\* a Last Error that names the status, unless its Send Status is SENT, SKIPPED
\* or MANUAL_CHECK, or PENDING in a run that is not REAL; in those cases, in a
\* VERIFY_ONLY run and after the stop the record is left as it was.
C7_TakenOverSkippedWhenSaving ==
    op.name = "sender" =>
        \A i \in 1..Len(fetched) :
            ~Fresh(fetched[i]) =>
                /\ CallsTo(fetched[i]) = <<>>
                /\ IF \/ op.VERIFY_ONLY
                      \/ op.stopped \in 1..i
                      \/ Terminal(fetched[i])
                      \/ upper(strip(fetched[i]["Send Status"])) = "PENDING" /\ op.MODE # "REAL"
                   THEN sheet[i] = fetched[i]
                   ELSE /\ sheet[i]["Send Status"] = "SKIPPED"
                        /\ sheet[i]["Last Error"] =
                              "Skipped due to Status: " \o lower(strip(fetched[i]["Status"]))

C7_Witness ==
    /\ op.name = "sender"
    /\ ~op.VERIFY_ONLY
    /\ \E i \in 1..Len(fetched) :
          /\ fetched[i]["Status"] = "Follow-up"
          /\ HasEmail(fetched[i])
          /\ fetched[i]["Send Status"] = "SENT_AUTO"
          /\ sheet[i]["Send Status"] = "SKIPPED"

C9_TerminalUntouched ==
    op.name = "sender" =>
        \A i \in 1..Len(fetched) :
            Terminal(fetched[i]) =>
                /\ sheet[i] = fetched[i]
                /\ CallsTo(fetched[i]) = <<>>
                /\ WritesOf(fetched[i]) = <<>>

C9_Witness ==
    /\ SenderSending
    /\ op.MODE = "REAL"
    /\ \E i \in 1..Len(fetched) :
          /\ fetched[i]["Send Status"] = "SENT"
          /\ Fresh(fetched[i]) /\ HasEmail(fetched[i]) /\ fetched[i]["Draft Email"] # ""
    /\ \E i \in 1..Len(fetched) : SentTo(fetched[i])

Eligible(row) == Fresh(row) /\ ~Terminal(row)

\* Row i of a sender run is not written back: the run is VERIFY_ONLY, its loop
\* broke at SEND_LIMIT at or before the row, or the row is PENDING and the run
\* is not REAL
NotSaved(i) ==
    \/ op.VERIFY_ONLY
    \/ op.stopped \in 1..i
    \/ upper(strip(fetched[i]["Send Status"])) = "PENDING" /\ op.MODE # "REAL"

Attempts(row) ==
    IF isdigit(strip(row["Send Attempts"])) THEN int(strip(row["Send Attempts"])) ELSE 0

\* C11: a planner run leaves a record with Status Follow-up, Followup Count >=
\* MAX_FOLLOWUPS and fewer than 3 days since Last Sent At as it was: it is not
\* archived, nothing is sent to it and no cell of it is written.
C11_ExhaustedWaitsForCooldown ==
    op.name = "planner" =>
        \A r \in Fetched :
            (/\ strip(r["Status"]) = "Follow-up"
             /\ CountOf(r) >= MAX_FOLLOWUPS
             /\ DaysSince(r) < ARCHIVE_COOLDOWN_DAYS) =>
                /\ CallsTo(r) = <<>>
                /\ WritesOf(r) = <<>>
                /\ r \in Stored(r)
                /\ ~Archived(r)

C11_Witness ==
    /\ op.name = "planner"
    /\ op.MODE = "REAL"
    /\ \E r \in Fetched :
          /\ r["Status"] = "Follow-up" /\ HasEmail(r)
          /\ CountOf(r) = MAX_FOLLOWUPS
          /\ DaysSince(r) = ARCHIVE_COOLDOWN_DAYS - 1
          /\ r \in Stored(r)

\* C12: a planner run whose MODE is not REAL calls the transport for nobody
\* and writes nothing: no cell update, no append to Lost_Leads, no row
\* deletion; the active sheet, its header row and Lost_Leads are as before.
C12_PlannerDryRunWritesNothing ==
    [][(op'.name = "planner" /\ op'.MODE # "REAL") =>
          /\ calls' = <<>>
          /\ writes' = <<>>
          /\ sheet' = sheet
          /\ lost' = lost
          /\ headers' = headers]_vars

C12_Witness ==
    /\ op.name = "planner"
    /\ op.MODE # "REAL"
    /\ \E r \in Fetched :
          /\ r["Status"] = "Follow-up" /\ HasEmail(r)
          /\ CountOf(r) \in 1..(MAX_FOLLOWUPS - 1)
          /\ DaysSince(r) >= WAIT_SCHEDULE(CountOf(r))
    /\ \E r \in Fetched :
          /\ r["Status"] = "Follow-up"
          /\ CountOf(r) >= MAX_FOLLOWUPS
          /\ DaysSince(r) >= ARCHIVE_COOLDOWN_DAYS

\* A record the sender finishes processing as ready to send
Ready(row) == Eligible(row) /\ HasEmail(row) /\ strip(row["Draft Email"]) # ""

\* C13 as stated: a DRYRUN sender run never calls the transport, sets no
\* record's Send Status to SENT or FAILED, and marks every record that is ready
\* to send PENDING.
C13_DryRunOnlyPending ==
    (op.name = "sender" /\ op.MODE = "DRYRUN") =>
        /\ calls = <<>>
        /\ \A i \in 1..Len(fetched) :
              /\ sheet[i]["Send Status"] \in {"SENT", "FAILED"} =>
                    fetched[i]["Send Status"] = sheet[i]["Send Status"]
              /\ Ready(fetched[i]) => sheet[i]["Send Status"] = "PENDING"

\* C13 amended: a DRYRUN sender run never calls the transport and sets no
\* record's Send Status to SENT.  Without VERIFY_ONLY it marks every record that
\* is ready to send PENDING (Send Mode DRYRUN, Last Error cleared), and it sets
\* FAILED with Last Error "Missing Draft Email" on a record that has an email
\* but no draft, and on no other; with VERIFY_ONLY it leaves the sheet as it was.
C13_DryRunPendingOrMissingDraft ==
    (op.name = "sender" /\ op.MODE = "DRYRUN") =>
        /\ calls = <<>>
        /\ op.VERIFY_ONLY => sheet = fetched
        /\ \A i \in 1..Len(fetched) :
              /\ sheet[i]["Send Status"] = "SENT" => fetched[i]["Send Status"] = "SENT"
              /\ (sheet[i]["Send Status"] = "FAILED" /\ sheet[i] # fetched[i]) =>
                    /\ Eligible(fetched[i]) /\ HasEmail(fetched[i])
                    /\ strip(fetched[i]["Draft Email"]) = ""
                    /\ sheet[i]["Last Error"] = "Missing Draft Email"
              /\ (Ready(fetched[i]) /\ ~op.VERIFY_ONLY
                    /\ upper(strip(fetched[i]["Send Status"])) # "PENDING") =>
                    sheet[i] = [fetched[i] EXCEPT !["Send Mode"] = "DRYRUN",
                                                  !["Send Status"] = "PENDING",
                                                  !["Last Error"] = ""]

C13_Witness ==
    /\ op.name = "sender" /\ op.MODE = "DRYRUN" /\ ~op.VERIFY_ONLY
    /\ \E i \in 1..Len(fetched) :
          Ready(fetched[i]) /\ fetched[i]["Send Status"] = ""
          /\ sheet[i]["Send Status"] = "PENDING"
    /\ \E i \in 1..Len(fetched) :
          fetched[i]["Send Status"] = "" /\ sheet[i]["Send Status"] = "FAILED"

\* C14: for each record a MOCK or REAL sender run sends, the transport is
\* called at most MAX_RETRIES times and never after a call that succeeded; Send
\* Attempts grows by the number of calls made; when every call failed there
\* were MAX_RETRIES of them and the record ends with Send Status FAILED and the
\* message of the last failure as Last Error.
C14_RetriesCounted ==
    SenderSending =>
        \A i \in 1..Len(fetched) :
            LET c == CallsTo(fetched[i])
            IN  /\ Len(c) <= MAX_RETRIES
                /\ \A k \in 1..(Len(c) - 1) : ~c[k].ok
                /\ Attempts(sheet[i]) = Attempts(fetched[i]) + Len(c)
                /\ (Len(c) > 0 /\ ~c[Len(c)].ok) =>
                      /\ Len(c) = MAX_RETRIES
                      /\ sheet[i]["Send Status"] = "FAILED"
                      /\ sheet[i]["Last Error"] = c[Len(c)].err

C14_Witness ==
    /\ SenderSending /\ op.MODE = "REAL"
    /\ \E i \in 1..Len(fetched) :
          /\ Len(CallsTo(fetched[i])) = MAX_RETRIES
          /\ ~SentTo(fetched[i])
          /\ sheet[i]["Send Status"] = "FAILED"
          /\ sheet[i]["Last Error"] # CallsTo(fetched[i])[1].err
    /\ \E i \in 1..Len(fetched) :
          /\ Len(CallsTo(fetched[i])) = 2
          /\ SentTo(fetched[i])
          /\ sheet[i]["Send Attempts"] = "2"

\* The successful sends of a sender run to the rows before row i
SentBefore(i) == Cardinality({j \in 1..(i - 1) : SentTo(fetched[j])})

\* C15: in a sender run without VERIFY_ONLY the records set to SENT are at
\* most SEND_LIMIT, and once SEND_LIMIT sends have succeeded no further
\* eligible record is sent to or changed.
C15_SendLimitCaps ==
    (op.name = "sender" /\ ~op.VERIFY_ONLY) =>
        /\ Cardinality({i \in 1..Len(fetched) :
                            /\ sheet[i]["Send Status"] = "SENT"
                            /\ sheet[i] # fetched[i]}) <= op.SEND_LIMIT
        /\ Cardinality({i \in 1..Len(fetched) : SentTo(fetched[i])}) <= op.SEND_LIMIT
        /\ \A i \in 1..Len(fetched) :
              (SentBefore(i) >= op.SEND_LIMIT /\ Eligible(fetched[i])) =>
                  /\ sheet[i] = fetched[i]
                  /\ CallsTo(fetched[i]) = <<>>
                  /\ WritesOf(fetched[i]) = <<>>

C15_Witness ==
    /\ op.name = "sender" /\ ~op.VERIFY_ONLY /\ op.MODE = "REAL"
    /\ op.SEND_LIMIT = 1
    /\ \E i \in 1..Len(fetched) : \E j \in (i + 1)..Len(fetched) :
          /\ SentTo(fetched[i])
          /\ Ready(fetched[j]) /\ fetched[j]["Send Status"] = ""
          /\ sheet[j] = fetched[j]

\* What the sender writes on a record without an email
NoEmailMark(row) ==
    IF lower(strip(row["Contact Info"])) \in {"", "none"}
    THEN [row EXCEPT !["Send Status"] = "SKIPPED", !["Last Error"] = "No contact info found"]
    ELSE [row EXCEPT !["Send Status"] = "MANUAL_CHECK",
                     !["Last Error"] = "Non-email contact found"]

\* C16 as stated: a sender run never sends to an eligible record without an
\* extractable email and leaves it with Send Status SKIPPED when the contact is
\* empty or "none" and MANUAL_CHECK otherwise; a record so marked is not changed
\* by a later sender run.
C16_NoEmailMarked ==
    op.name = "sender" =>
        \A i \in 1..Len(fetched) :
            ~HasEmail(fetched[i]) =>
                /\ CallsTo(fetched[i]) = <<>>
                /\ Eligible(fetched[i]) => sheet[i] = NoEmailMark(fetched[i])
                /\ fetched[i]["Send Status"] \in {"SKIPPED", "MANUAL_CHECK"} =>
                      sheet[i] = fetched[i]

\* C16 amended: a sender run never sends to a record without an extractable
\* email.  A run without VERIFY_ONLY that reaches an eligible one before it
\* stops at SEND_LIMIT leaves it with Send Status SKIPPED when the contact is
\* empty or "none" and MANUAL_CHECK otherwise; a VERIFY_ONLY run and a run
\* that has stopped leave it as it was.  A record so marked is not changed by a
\* later sender run.
C16_NoEmailMarkedWhenSaving ==
    op.name = "sender" =>
        \A i \in 1..Len(fetched) :
            ~HasEmail(fetched[i]) =>
                /\ CallsTo(fetched[i]) = <<>>
                /\ Eligible(fetched[i]) =>
                      sheet[i] = IF NotSaved(i) THEN fetched[i] ELSE NoEmailMark(fetched[i])
                /\ fetched[i]["Send Status"] \in {"SKIPPED", "MANUAL_CHECK"} =>
                      sheet[i] = fetched[i]

C16_Witness ==
    /\ op.name = "sender" /\ ~op.VERIFY_ONLY
    /\ \E i \in 1..Len(fetched) :
          /\ fetched[i]["Contact Info"] = PHONE /\ fetched[i]["Send Status"] = ""
          /\ sheet[i]["Send Status"] = "MANUAL_CHECK"
    /\ \E i \in 1..Len(fetched) :
          /\ fetched[i]["Contact Info"] = "None" /\ fetched[i]["Send Status"] = ""
          /\ sheet[i]["Send Status"] = "SKIPPED"

\* C17 as stated: a sender run never sends to an eligible record that has an
\* email but an empty Draft Email: no transport call, Send Attempts as before,
\* and the record gets Send Status FAILED with a Last Error that contains
\* "Missing Draft".
C17_MissingDraftFails ==
    op.name = "sender" =>
        \A i \in 1..Len(fetched) :
            (Eligible(fetched[i]) /\ HasEmail(fetched[i])
                /\ strip(fetched[i]["Draft Email"]) = "") =>
                /\ CallsTo(fetched[i]) = <<>>
                /\ sheet[i]["Send Attempts"] = fetched[i]["Send Attempts"]
                /\ sheet[i]["Send Status"] = "FAILED"
                /\ contains(sheet[i]["Last Error"], "Missing Draft")

\* C17 amended: a sender run never sends to an eligible record that has an
\* email but an empty Draft Email, and leaves its Send Attempts as they were.
\* A run without VERIFY_ONLY that reaches the record before it stops at
\* SEND_LIMIT leaves it with Send Status FAILED, Last Error "Missing Draft
\* Email" and Send Mode the run's mode; a VERIFY_ONLY run and a run that has
\* stopped leave it as it was.
C17_MissingDraftFailsWhenSaving ==
    op.name = "sender" =>
        \A i \in 1..Len(fetched) :
            (Eligible(fetched[i]) /\ HasEmail(fetched[i])
                /\ strip(fetched[i]["Draft Email"]) = "") =>
                /\ CallsTo(fetched[i]) = <<>>
                /\ sheet[i]["Send Attempts"] = fetched[i]["Send Attempts"]
                /\ IF NotSaved(i) THEN sheet[i] = fetched[i]
                   ELSE /\ contains(sheet[i]["Last Error"], "Missing Draft")
                        /\ sheet[i] = [fetched[i] EXCEPT
                                          !["Send Mode"] = op.MODE,
                                          !["Send Status"] = "FAILED",
                                          !["Last Error"] = "Missing Draft Email"]

C17_Witness ==
    /\ SenderSending /\ op.MODE = "REAL"
    /\ \E i \in 1..Len(fetched) :
          /\ Eligible(fetched[i]) /\ HasEmail(fetched[i])
          /\ fetched[i]["Draft Email"] = "" /\ fetched[i]["Send Status"] = ""
          /\ sheet[i]["Send Status"] = "FAILED"
    /\ \E i \in 1..Len(fetched) : SentTo(fetched[i])

\* C18 as stated: whenever a run changes a record's Send Status, the value it
\* writes is one of "", PENDING, SENT, FAILED, SKIPPED, MANUAL_CHECK.
C18_SendStatusInEnum ==
    \A r \in Fetched : \A w \in Stored(r) :
        w["Send Status"] # r["Send Status"] =>
            w["Send Status"] \in {"", "PENDING", "SENT", "FAILED", "SKIPPED", "MANUAL_CHECK"}

\* C18 amended: every Send Status in the sheet, and every value a run writes
\* to one, is one of "", PENDING, SENT, FAILED, SKIPPED, MANUAL_CHECK and
\* SENT_AUTO, and SENT_AUTO is written by the planner only.
C18_SendStatusInEnumOrAuto ==
    /\ \A i \in 1..Len(sheet) :
          sheet[i]["Send Status"] \in
              {"", "PENDING", "SENT", "FAILED", "SKIPPED", "MANUAL_CHECK", "SENT_AUTO"}
    /\ \A k \in 1..Len(writes) :
          (writes[k].kind = "cell" /\ writes[k].col = "Send Status") =>
              writes[k].value \in
                  {"", "PENDING", "SENT", "FAILED", "SKIPPED", "MANUAL_CHECK", "SENT_AUTO"}
    /\ \A r \in Fetched : \A w \in Stored(r) :
          (w["Send Status"] # r["Send Status"] /\ w["Send Status"] = "SENT_AUTO") =>
              op.name = "planner" /\ SentTo(r)

C18_Witness ==
    /\ op.name = "planner"
    /\ \E r \in Fetched : \E w \in Stored(r) :
          r["Send Status"] = "SENT" /\ w["Send Status"] = "SENT_AUTO"

\* The columns the enrichment phase of the repair pass writes
DraftColumns == {"Draft Email", "Email Subject"}

C19_AdmittedEndsArchived ==
    \A l \in {LinkOf(i) : i \in 1..MaxRows} :
        (\E k \in 1..Len(sheet) :
            /\ sheet[k]["Link"] = l
            /\ sheet[k]["Status"] = "New"
            /\ HasEmail(sheet[k])
            /\ strip(sheet[k]["Draft Email"]) # "")
        ~> (\E k \in 1..Len(lost) : lost[k]["Link"] = l)

\* Where the life of an admitted lead stops: whatever runs follow, its Status
\* stays New, the planner never sends to it and Lost_Leads stays empty
C19_StaysNew ==
    /\ lost = <<>>
    /\ \A k \in 1..Len(sheet) : sheet[k]["Status"] = "New"
    /\ op.name = "planner" => calls = <<>> /\ writes = <<>>

---------------------------------------------------------------------------
(* Properties of a screening.  In a state where screening.decided holds,    *)
(* is_salary_too_low has returned screening.too_low for the arguments in    *)
(* `screening`.                                                              *)

Facts == build_salary_facts(screening.raw)

\* The text contains "negotiable", "DOE" or "TBD", in any case
OpenEnded(raw) == \E term \in OpenTerms : contains(lower(raw), term)

CurrencyResolved == Facts.currency \in {"usd", "php"}
HasMonthly == Facts.low_monthly # None \/ Facts.high_monthly # None

\* The monthly lower bound, or the upper bound when there is no lower one
MonthlyFigure == IF Facts.low_monthly # None THEN Facts.low_monthly ELSE Facts.high_monthly

Threshold ==
    IF Facts.currency = "usd" THEN screening.min_monthly_usd ELSE screening.min_monthly_php

C22_StrictlyBelowThreshold ==
    screening.decided /\ CurrencyResolved /\ HasMonthly
    => (screening.too_low <=> MonthlyFigure.n < Threshold * MonthlyFigure.d)

C22_Witness ==
    /\ screening.decided
    /\ CurrencyResolved
    /\ Facts.unit = "hour"
    /\ MonthlyFigure.n = Threshold * MonthlyFigure.d
    /\ Threshold > 0
    /\ ~screening.too_low

\* C23: when the currency is still unknown after inference the string is too
\* low whatever the policy and the thresholds; otherwise, when no monthly
\* bound could be computed, it is too low exactly when the policy is "skip".
C23_UnknownThenPolicy ==
    screening.decided =>
        /\ ~CurrencyResolved => screening.too_low
        /\ CurrencyResolved /\ ~HasMonthly =>
              (screening.too_low <=> screening.unknown_policy = "skip")

C23_Witness ==
    /\ screening.decided
    /\ CurrencyResolved
    /\ ~HasMonthly
    /\ Facts.low_raw # None
    /\ screening.unknown_policy = "skip"
    /\ screening.too_low

---------------------------------------------------------------------------
(* Properties of a session at the launcher menu *)

Typed(k) == launcher.typed[k]
Started == {launcher.started[k] : k \in 1..Len(launcher.started)}
StartedAfter(k) == {s \in Started : s.after = k}
ChoiceOf(k) == lower(strip(Typed(k).line))

\* C24: sender_agent.py is started with MODE = REAL only by option 5 followed
\* by the confirmation "YES", typed exactly; any other confirmation starts no
\* subprocess; option 2 starts sender_agent.py, always with MODE = DRYRUN and
\* VERIFY_ONLY = 0, also after an earlier REAL run of the session.
C24_RealOnlyConfirmed ==
    /\ \A s \in Started :
          s.script = "sender_agent.py" /\ s.MODE = "REAL" =>
              /\ s.after >= 2
              /\ Typed(s.after) = [prompt |-> "confirm", line |-> "YES"]
              /\ Typed(s.after - 1).prompt = "menu"
              /\ ChoiceOf(s.after - 1) = "5"
    /\ \A k \in 1..Len(launcher.typed) :
          /\ Typed(k).prompt = "confirm" /\ Typed(k).line # "YES" => StartedAfter(k) = {}
          /\ Typed(k).prompt = "menu" /\ ChoiceOf(k) = "2" =>
                StartedAfter(k) = {[script |-> "sender_agent.py", MODE |-> "DRYRUN",
                                    VERIFY_ONLY |-> "0", after |-> k]}

C24_Witness ==
    /\ Len(launcher.started) = 2
    /\ launcher.started[1].script = "sender_agent.py"
    /\ launcher.started[1].MODE = "REAL"
    /\ launcher.started[2].script = "sender_agent.py"
    /\ launcher.started[2].MODE = "DRYRUN"
    /\ launcher.started[2].VERIFY_ONLY = "0"
    /\ Typed(Len(launcher.typed)).line = " 2"

---------------------------------------------------------------------------
(* Properties of the runs, continued *)

ResetColumns == {"Send Status", "Send Mode", "Last Error", "Send Attempts"}

Unprotected(row) == row["Send Status"] \notin {"SENT", "MANUAL_CHECK", "SKIPPED"}

Marked(row) == row["Send Mode"] # "" \/ row["Last Error"] # "" \/ row["Send Status"] # ""

C26_OnlyContactlessDeleted ==
    op.name = "repair" =>
        /\ \A r \in Fetched :
              Stored(r) = {} <=> lower(strip(r["Contact Info"])) \in {"", "none"}
        /\ \A i, j \in 1..Len(sheet) : sheet[i]["Link"] = sheet[j]["Link"] => i = j
        /\ \A i, j \in 1..Len(fetched) :
              (i < j /\ Stored(fetched[i]) # {} /\ Stored(fetched[j]) # {}) =>
                  \E a, b \in 1..Len(sheet) :
                      /\ a < b
                      /\ sheet[a]["Link"] = fetched[i]["Link"]
                      /\ sheet[b]["Link"] = fetched[j]["Link"]

C26_Witness ==
    /\ op.name = "repair"
    /\ Len(fetched) = 2
    /\ Len(sheet) = 1
    /\ fetched[1]["Contact Info"] = "None"
    /\ fetched[1]["Send Status"] \in {"SKIPPED", "MANUAL_CHECK"}
    /\ sheet[1]["Link"] = fetched[2]["Link"]

\* C27: the repair pass leaves a Followup Count that is a digit string of at
\* most 5 characters as it was, and replaces every other value (the empty
\* string, a text, a longer number) by "1" when Status is exactly Follow-up or
\* In Progress and by "0" otherwise.
C27_CounterRepaired ==
    op.name = "repair" =>
        \A r \in Fetched : \A w \in Stored(r) :
            w["Followup Count"] =
                IF isdigit(r["Followup Count"]) /\ Len(r["Followup Count"]) <= 5
                THEN r["Followup Count"]
                ELSE IF r["Status"] \in {"Follow-up", "In Progress"} THEN "1" ELSE "0"

C27_Witness ==
    /\ op.name = "repair"
    /\ Len(fetched) = 2
    /\ \E r \in Fetched : \E w \in Stored(r) :
          /\ r["Followup Count"] = "123456"
          /\ r["Status"] = "Follow-up"
          /\ w["Followup Count"] = "1"
    /\ \E r \in Fetched : \E w \in Stored(r) :
          /\ r["Followup Count"] = ""
          /\ r["Status"] = "New"
          /\ w["Followup Count"] = "0"

\* Last Sent At holds no date: the cell is empty or unparseable
NoDate(row) == ~isdigit(strip(row["Last Sent At"]))

\* C28: a planner run in MODE REAL treats a Follow-up record whose Last Sent At
\* is empty or unparseable as due: with a Followup Count of MAX_FOLLOWUPS or
\* more the record is archived in that run, and with a smaller count, an email
\* address and a template for the next stage that follow-up is sent to it in
\* that run.
C28_NoDateIsDue ==
    (op.name = "planner" /\ op.MODE = "REAL") =>
        \A r \in Fetched :
            (strip(r["Status"]) = "Follow-up" /\ NoDate(r)) =>
                IF CountOf(r) >= MAX_FOLLOWUPS
                THEN Stored(r) = {} /\ Archived(r)
                ELSE (HasEmail(r) /\ (CountOf(r) + 1) \in TemplateStages) =>
                        /\ Len(CallsTo(r)) = 1
                        /\ CallsTo(r)[1].stage = CountOf(r) + 1

C28_Witness ==
    /\ op.name = "planner" /\ op.MODE = "REAL"
    /\ \E r \in Fetched :
          /\ r["Status"] = "Follow-up" /\ r["Last Sent At"] = "Hi there"
          /\ CountOf(r) >= MAX_FOLLOWUPS
          /\ Archived(r)
    /\ \E r \in Fetched :
          /\ r["Status"] = "Follow-up" /\ r["Last Sent At"] = ""
          /\ CountOf(r) = 1
          /\ SentTo(r)

\* The run called the transport for the record and every call failed
FailedFor(row) == CallsTo(row) # <<>> /\ ~SentTo(row)

DraftingFor(row) ==
    {op.drafting[k] : k \in {n \in 1..Len(op.drafting) : op.drafting[n].link = row["Link"]}}

\* C29: a failure on one record does not end a pass.  After a record whose
\* send failed for good, a sender run still calls the transport for every later
\* record that is ready to send (until SEND_LIMIT sends have succeeded) and
\* leaves it SENT or FAILED, and a planner run still archives every later
\* record that is due for archival and still calls the transport for every
\* later record that is due for a follow-up.  After a record whose drafting
\* call failed, the repair pass still calls the drafting for every later
\* record it keeps that has no draft and a description.
C29_FailureDoesNotAbort ==
    \A i \in 1..Len(fetched) : \A j \in (i + 1)..Len(fetched) :
        LET failed == fetched[i]
            later == fetched[j]
        IN  /\ (/\ SenderSending
                /\ FailedFor(failed)
                /\ Ready(later)
                /\ (upper(strip(later["Send Status"])) = "PENDING" => op.MODE = "REAL")
                /\ SentBefore(j) < op.SEND_LIMIT)
               => (/\ CallsTo(later) # <<>>
                   /\ sheet[j]["Send Status"] \in {"SENT", "FAILED"})
            /\ (/\ op.name = "planner"
                /\ FailedFor(failed)
                /\ strip(later["Status"]) = "Follow-up"
                /\ CountOf(later) >= MAX_FOLLOWUPS
                /\ DaysSince(later) >= ARCHIVE_COOLDOWN_DAYS)
               => Archived(later)
            /\ (/\ op.name = "planner"
                /\ FailedFor(failed)
                /\ strip(later["Status"]) = "Follow-up"
                /\ CountOf(later) < MAX_FOLLOWUPS
                /\ HasEmail(later)
                /\ DaysSince(later) >= WAIT_SCHEDULE(CountOf(later))
                /\ (CountOf(later) + 1) \in TemplateStages)
               => CallsTo(later) # <<>>
            /\ (/\ op.name = "repair"
                /\ \E c \in DraftingFor(failed) : ~c.ok
                /\ lower(strip(later["Contact Info"])) \notin {"", "none"}
                /\ later["Draft Email"] = ""
                /\ Len(later["Description"]) > 20)
               => DraftingFor(later) # {}

C29_Witness ==
    /\ SenderSending
    /\ op.SEND_LIMIT = 1
    /\ \E i \in 1..Len(fetched) : \E j \in (i + 1)..Len(fetched) :
          /\ FailedFor(fetched[i])
          /\ Len(CallsTo(fetched[i])) = MAX_RETRIES
          /\ sheet[i]["Send Status"] = "FAILED"
          /\ SentTo(fetched[j])
          /\ sheet[j]["Send Status"] = "SENT"

\* Reachable as well: a planner run that fails on one record and sends to a
\* later one, and a repair pass whose drafting fails for one record and
\* succeeds for a later one
C29_PlannerGoesOn ==
    /\ op.name = "planner"
    /\ \E i \in 1..Len(fetched) : \E j \in (i + 1)..Len(fetched) :
          FailedFor(fetched[i]) /\ SentTo(fetched[j])

C29_RepairGoesOn ==
    /\ op.name = "repair"
    /\ \E i \in 1..Len(fetched) : \E j \in (i + 1)..Len(fetched) :
          /\ \E c \in DraftingFor(fetched[i]) : ~c.ok
          /\ \E c \in DraftingFor(fetched[j]) : c.ok
          /\ \E w \in Stored(fetched[i]) : w["Draft Email"] = ""
          /\ \E w \in Stored(fetched[j]) : w["Draft Email"] = AI_DRAFT

\* The stored record carries the mark of a failed send: Send Status FAILED or
\* the message of the last failure as Last Error
MarkedFailed(row) ==
    \E w \in Stored(row) :
        \/ w["Send Status"] = "FAILED"
        \/ w["Last Error"] = CallsTo(row)[Len(CallsTo(row))].err

\* C30: after a sender or planner run in which every transport call for a
\* record failed, the stored record carries the failure: its Send Status is
\* FAILED or its Last Error is the message of the failure.
C30_FailedSendMarked ==
    op.name \in {"sender", "planner"} =>
        \A r \in Fetched : FailedFor(r) => MarkedFailed(r)

\* What holds of each program: the sender marks the record FAILED with the
\* message of the last failure, the planner leaves the record exactly as it
\* read it
C30_SenderMarksPlannerSilent ==
    \A r \in Fetched :
        FailedFor(r) =>
            /\ op.name = "sender" =>
                  \E w \in Stored(r) :
                      /\ w["Send Status"] = "FAILED"
                      /\ w["Last Error"] = CallsTo(r)[Len(CallsTo(r))].err
            /\ op.name = "planner" => (r \in Stored(r) /\ WritesOf(r) = <<>>)

---------------------------------------------------------------------------
(* C31 *)

Unsent(row) ==
    /\ lower(strip(get_cell(row, "Status"))) \in {"", "new"}
    /\ get_cell(row, "Send Status") = ""

OnlyHeaderWritten == \A k \in 1..Len(writes) : writes[k].kind = "header"

\* C31: a run of the sender that finds Contact Info, Draft Email or Email
\* Subject absent from the header row, and a run of the planner that finds
\* Last Sent At, Followup Count or Send Status absent, aborts at the check: it
\* calls no transport and leaves every record row as it fetched it.
C31_MissingColumnAborts ==
    /\ (op.name = "sender" /\ \E c \in SenderRequiredColumns : ~HasColumn(headers, c)) =>
            /\ op.missing = {c \in SenderRequiredColumns : ~HasColumn(headers, c)}
            /\ calls = <<>>
            /\ sheet = fetched
            /\ OnlyHeaderWritten
    /\ (op.name = "planner" /\ \E c \in PlannerRequiredColumns : ~HasColumn(headers, c)) =>
            /\ op.missing = {c \in PlannerRequiredColumns : ~HasColumn(headers, c)}
            /\ calls = <<>>
            /\ sheet = fetched
            /\ writes = <<>>

\* A REAL run of the sender over a sheet with an unsent lead has aborted
C31_Witness ==
    /\ op.name = "sender"
    /\ op.MODE = "REAL"
    /\ ~op.VERIFY_ONLY
    /\ op.missing # {}
    /\ \E i \in 1..Len(fetched) : Unsent(fetched[i])

\* A REAL run of the planner over a sheet with a follow-up that is due has
\* aborted
C31_PlannerAborted ==
    /\ op.name = "planner"
    /\ op.MODE = "REAL"
    /\ op.missing # {}
    /\ \E i \in 1..Len(fetched) :
          /\ strip(get_cell(fetched[i], "Status")) = "Follow-up"
          /\ get_cell(fetched[i], "Followup Count") = "1"

---------------------------------------------------------------------------
(* C32 *)

\* The links of the rows, top row first
LinkSeq(rows) == [i \in 1..Len(rows) |-> rows[i]["Link"]]

Removed == {op.deletes[k].link : k \in {j \in 1..Len(op.deletes) : op.deletes[j].ok}}

\* C32: the delete calls of a pass of the planner, of the repair pass and of
\* the validator are made in strictly descending order of row index, and the
\* rows that leave the sheet are exactly the marked rows whose call the store
\* accepted, also when a call before them was refused.
C32_DescendingDeletes ==
    op.name \in {"planner", "repair", "validator"} =>
        /\ \A k \in 1..(Len(op.deletes) - 1) : op.deletes[k].idx > op.deletes[k + 1].idx
        /\ LinkSeq(sheet) = SelectSeq(LinkSeq(fetched), LAMBDA l : l \notin Removed)

\* A pass in which the store refused a delete and accepted a later one
C32_Witness ==
    /\ op.name \in {"repair", "validator"}
    /\ \E k \in 1..Len(op.deletes) : \E j \in (k + 1)..Len(op.deletes) :
          ~op.deletes[k].ok /\ op.deletes[j].ok

\* A pass of the planner that deleted two rows
C32_PlannerDeletedTwo ==
    /\ op.name = "planner"
    /\ Len(op.deletes) = 2
    /\ op.deletes[1].ok /\ op.deletes[2].ok

---------------------------------------------------------------------------
(* C33 *)

\* The representative value of the inference: the lower bound if present,
\* else the upper bound
Representative ==
    IF screening.low_raw # None THEN screening.low_raw ELSE screening.high_raw

Within(lo, v, hi) == lo * v.d <= v.n /\ v.n <= hi * v.d
Below(v, hi) == v.n < hi * v.d

\* What the magnitude of v stands for: a currency and a unit
Magnitude(v) ==
    IF Within(15000, v, 100000) THEN <<"php", "month">>
    ELSE IF Below(v, 100) THEN <<"usd", "hour">>
    ELSE IF Within(100, v, 400) /\ Below(v, 400) THEN <<"usd", "week">>
    ELSE IF Within(400, v, 4000) THEN <<"usd", "month">>
    ELSE <<"unknown", "unknown">>

Inferring ==
    /\ screening.decided
    /\ screening.currency = "unknown"
    /\ Representative # None

---------------------------------------------------------------------------
(* C34 *)

C34_ShorthandUndetected ==
    (screening.decided /\ screening.raw \in {"$5/h", "5usd / h", "1000/m", "1000 per m"}) =>
        /\ detect_unit(screening.raw) = "unknown"
        /\ screening.raw = "$5/h" => (screening.too_low <=> screening.unknown_policy = "skip")
        /\ (screening.raw = "1000/m" /\ screening.min_monthly_usd = 900) => ~screening.too_low

---------------------------------------------------------------------------
(* C35 *)

\* The archive holds the row as the planner read it, marked Lost
InArchive(row) == \E k \in 1..Len(lost) : lost[k] = ArchiveRow(row)

Gone(row) == row["Link"] \notin Links(sheet)

\* C35: after a run of the planner every row that has left the active sheet
\* is in Lost_Leads; when the append to Lost_Leads was refused (nothing was
\* appended), no row has left the active sheet.
C35_DeletedOnlyAfterAppend ==
    op.name = "planner" =>
        /\ \A i \in 1..Len(fetched) : Gone(fetched[i]) => InArchive(fetched[i])
        /\ (\A k \in 1..Len(writes) : writes[k].kind # "append") =>
              \A i \in 1..Len(fetched) : ~Gone(fetched[i])

\* A REAL run of the planner over a sheet with an exhausted record whose
\* cooldown has passed, in which the append was refused
C35_Witness ==
    /\ op.name = "planner"
    /\ op.MODE = "REAL"
    /\ \E i \in 1..Len(fetched) : PlannerArchives(fetched[i], now)
    /\ \A k \in 1..Len(writes) : writes[k].kind # "append"
    /\ lost = <<>>

\* A run that archived an exhausted record and deleted it
C35_ArchivedAndDeleted ==
    /\ op.name = "planner"
    /\ \E i \in 1..Len(fetched) : Gone(fetched[i]) /\ InArchive(fetched[i])

---------------------------------------------------------------------------
(* C36 *)

\* C36: after a REAL run of the planner, a record whose follow-up the
\* transport accepted has Last Sent At, Followup Count and Send Status
\* updated: its count is one higher than the planner read it.
C36_SentThenAdvanced ==
    (op.name = "planner" /\ op.MODE = "REAL") =>
        \A i \in 1..Len(fetched) :
            SentTo(fetched[i]) =>
                \A r \in Stored(fetched[i]) :
                    /\ get_cell(r, "Followup Count") = str(PlannerCount(fetched[i]) + 1)
                    /\ get_cell(r, "Last Sent At") = str(now)
                    /\ get_cell(r, "Send Status") = "SENT_AUTO"

\* What the code does: the cells written for a record whose follow-up was
\* accepted are the first ones of Last Sent At, Followup Count, Send Status
\* (all three when the store accepted every update), and nothing is written
\* for a record whose follow-up the transport refused.
C36_UpdatesUpToRefusal ==
    (op.name = "planner" /\ op.MODE = "REAL") =>
        \A i \in 1..Len(fetched) :
            LET made == SelectSeq(writes, LAMBDA w : w.kind = "cell" /\ w.link = fetched[i]["Link"])
            IN  /\ Len(made) <= 3
                /\ made = SubSeq(FollowupUpdates(fetched[i], now), 1, Len(made))
                /\ ~SentTo(fetched[i]) => made = <<>>

---------------------------------------------------------------------------
(* C37 *)

MarkedSent(row) == upper(strip(get_cell(row, "Send Status"))) = "SENT"

ReallyMailed(row) ==
    \E k \in 1..Len(calls) :
        calls[k].link = row["Link"] /\ calls[k].via = "REAL" /\ calls[k].ok

\* C37: a record that a run leaves with Send Status SENT, and that was not
\* SENT before the run, was accepted by the real mail transport in that run.
C37_SentOnlyIfMailed ==
    op.name # "none" =>
        \A i \in 1..Len(fetched) :
            \A r \in Stored(fetched[i]) :
                (MarkedSent(r) /\ ~MarkedSent(fetched[i])) => ReallyMailed(fetched[i])

\* What the code does: a record becomes SENT in a run of the sender that is
\* REAL or MOCK, after a transport call of that mode that returned; a record
\* that is SENT, by whatever mode, is left alone by the sender in every mode.
C37_SentByRealOrMock ==
    op.name # "none" =>
        \A i \in 1..Len(fetched) :
            \A r \in Stored(fetched[i]) :
                /\ (MarkedSent(r) /\ ~MarkedSent(fetched[i])) =>
                      /\ op.name = "sender" /\ op.MODE \in {"REAL", "MOCK"}
                      /\ get_cell(r, "Send Mode") = op.MODE
                      /\ \E k \in 1..Len(calls) :
                            /\ calls[k].link = r["Link"]
                            /\ calls[k].via = op.MODE
                            /\ calls[k].ok
                /\ (op.name = "sender" /\ MarkedSent(fetched[i])) =>
                      r = fetched[i] /\ CallsTo(fetched[i]) = <<>>

\* A REAL run of the sender has passed over a record that a MOCK run had
\* marked SENT
C37_MockSentSkippedByReal ==
    /\ op.name = "sender" /\ op.MODE = "REAL" /\ ~op.VERIFY_ONLY
    /\ \E i \in 1..Len(fetched) :
          /\ MarkedSent(fetched[i])
          /\ get_cell(fetched[i], "Send Mode") = "MOCK"
          /\ sheet[i] = fetched[i]

---------------------------------------------------------------------------
(* C38 *)

\* The transport accepted the follow-up of the stage for the record
Followed(link, stage) ==
    /\ op.name = "planner"
    /\ \E k \in 1..Len(calls) :
          calls[k].link = link /\ calls[k].stage = stage /\ calls[k].ok

\* The count the planner reads for the record in the rows, -1 when it is gone
CountIn(rows, link) ==
    IF \E i \in 1..Len(rows) : rows[i]["Link"] = link
    THEN PlannerCount(rows[CHOOSE i \in 1..Len(rows) : rows[i]["Link"] = link])
    ELSE -1

\* C38: the planner calls the transport only for a record whose count is
\* below MAX_FOLLOWUPS, with the template of the stage after its count; a
\* stage the transport accepted is the count the run stores for the record;
\* and no sender, planner or repair run lowers the count of a record that
\* stays in the sheet, so that no later run sends the same stage to it again.
C38_EachStageOnce ==
    /\ [](op.name = "planner" =>
            \A k \in 1..Len(calls) :
                /\ \E i \in 1..Len(fetched) :
                      /\ fetched[i]["Link"] = calls[k].link
                      /\ PlannerCount(fetched[i]) < MAX_FOLLOWUPS
                      /\ calls[k].stage = PlannerCount(fetched[i]) + 1
                      /\ calls[k].stage \in TemplateStages
                /\ calls[k].ok => CountIn(sheet, calls[k].link) = calls[k].stage
                /\ \A j \in 1..Len(calls) : calls[j].link = calls[k].link => j = k)
    /\ [][\A link \in {LinkOf(i) : i \in 1..MaxRows} :
             CountIn(sheet', link) >= 0 => CountIn(sheet', link) >= CountIn(sheet, link)]_vars

\* A planner run has sent the last follow-up to a record that started the
\* cadence at StartDay, and has stored MAX_FOLLOWUPS as its count
C38_Witness ==
    /\ Followed(LinkOf(1), MAX_FOLLOWUPS)
    /\ \E i \in 1..Len(sheet) : sheet[i]["Link"] = LinkOf(1) /\ CountOf(sheet[i]) = MAX_FOLLOWUPS
    /\ now = StartDay + 23

---------------------------------------------------------------------------
(* C39 *)

CadenceLinks == {LinkOf(i) : i \in 1..MaxRows}

\* The record of the link in the active sheet, as a set of at most one row
Active(link) == {sheet[i] : i \in {k \in 1..Len(sheet) : sheet[k]["Link"] = link}}

\* A Follow-up record with an extractable email and a count in 1..4
Qualifies(link) ==
    \E row \in Active(link) :
        /\ PlannerConsiders(row)
        /\ HasEmail(row)
        /\ PlannerCount(row) \in 1..(MAX_FOLLOWUPS - 1)

\* The record has been appended to Lost_Leads and removed from the sheet
ArchivedAndRemoved(link) ==
    /\ Active(link) = {}
    /\ \E k \in 1..Len(lost) : lost[k]["Link"] = link /\ lost[k]["Status"] = "Lost"

\* The planner was not run on the day a follow-up fell due: more days than
\* the wait of its stage have passed since the last message of a record
Overdue ==
    \E i \in 1..Len(sheet) :
        /\ PlannerConsiders(sheet[i])
        /\ HasEmail(sheet[i])
        /\ PlannerCount(sheet[i]) \in 1..(MAX_FOLLOWUPS - 1)
        /\ PlannerDaysSince(sheet[i], now) > WAIT_SCHEDULE(PlannerCount(sheet[i]))

\* The planner run left the fetched record alone: no call, the same row
Untouched(row) ==
    /\ CallsTo(row) = <<>>
    /\ Stored(row) = {row}
    /\ ~Archived(row)

\* The planner that runs on the day each follow-up falls due (no follow-up
\* is ever overdue) and again and again afterwards takes each qualifying
\* record to count 5 and then to Lost_Leads
Progresses ==
    \A link \in CadenceLinks :
        <>Overdue \/ (Qualifies(link) ~> ArchivedAndRemoved(link))

C39_ArchivedWithoutEmail ==
    /\ op.name = "planner"
    /\ \E row \in Fetched : ~HasEmail(row) /\ Archived(row) /\ Stored(row) = {}

---------------------------------------------------------------------------
(* C40 *)

\* The run changed the fields of the i-th row it read
Changed(i) == op.rows[i] # fetched[i]

\* The i-th row was passed to a batch_update call that returned
Flushed(i) ==
    \E k \in 1..Len(op.saves) :
        /\ op.saves[k].ok
        /\ \E j \in 1..Len(op.saves[k].rows) : op.saves[k].rows[j] = i

\* C40: when a sender run that is not VERIFY_ONLY has finished without
\* raising, every row whose fields it changed has been passed to a
\* batch_update call that returned, and the sheet holds the row as changed.
C40_ChangedRowsFlushed ==
    (op.name = "sender" /\ op.rows # <<>> /\ ~op.raised) =>
        \A i \in 1..Len(fetched) :
            Changed(i) => (Flushed(i) /\ sheet[i] = op.rows[i])

\* A run whose first batch save failed and that stopped at SEND_LIMIT has
\* flushed its rows in the final save
C40_Witness ==
    /\ op.name = "sender"
    /\ ~op.raised
    /\ op.stopped > 0
    /\ Len(op.saves) >= 2
    /\ ~op.saves[1].ok
    /\ \E i \in 1..Len(fetched) : Changed(i) /\ Flushed(i)

\* A run left without an intermediate save because its queued rows were
\* skipped by the CRM check: all rows are flushed by the final save
C40_FlushedAfterContinue ==
    /\ op.name = "sender"
    /\ ~op.raised
    /\ Len(op.saves) = 1
    /\ Len(op.saves[1].rows) > BATCH_SAVE_SIZE

=============================================================================
